---- MODULE Spec2Model ----
(***************************************************************************)
(* A model of lib/src/kvs/tx.rs: the Transaction facade over an ordered    *)
(* key-value backend transaction, its paged range/prefix operations and    *)
(* its lifecycle.                                                          *)
(*                                                                         *)
(* Keys and values are byte strings (sequences of 0..255).  The backend    *)
(* transaction (the `v` of every match arm, kvs/mem.rs and its siblings)   *)
(* is an ordered map whose primitives v_get, v_set, ... follow the         *)
(* contract table of the specification; the facade operators get, set,     *)
(* getr, ... are translated from tx.rs.                                    *)
(***************************************************************************)
EXTENDS Integers, Sequences, FiniteSets

VARIABLES tx, ret

vars == <<tx, ret>>

(***************************************************************************)
(* Bounds of the model.                                                    *)
(***************************************************************************)
\* Values stored in the small store are the one-byte strings <<1>> .. <<MaxVal>>.
MaxVal == 2

(***************************************************************************)
(* Byte strings: Key and Val (kvs/mod.rs: Vec<u8>), ordered as Vec<u8> is. *)
(***************************************************************************)
MinOf(a, b) == IF a <= b THEN a ELSE b

RECURSIVE key_less_from(_, _, _)
\* a < b, given that a and b agree before position i
key_less_from(a, b, i) ==
  IF i > Len(a) THEN i <= Len(b)
  ELSE IF i > Len(b) THEN FALSE
  ELSE IF a[i] = b[i] THEN key_less_from(a, b, i + 1)
  ELSE a[i] < b[i]

\* a < b in the lexicographic order of byte strings
KeyLess(a, b) == key_less_from(a, b, 1)

KeyLeq(a, b) == a = b \/ KeyLess(a, b)

\* k starts with p
StartsWith(k, p) == Len(p) <= Len(k) /\ SubSeq(k, 1, Len(p)) = p

\* Vec::push
push(k, b) == Append(k, b)

\* kv::Add for Key: the key followed by one more byte
add(k, b) == Append(k, b)

(***************************************************************************)
(* u32 counters.  A u32 is kept as two 16-bit limbs so that the full       *)
(* width, u32::MAX included, is represented.                               *)
(***************************************************************************)
Limb == 256 * 256

U32(hi, lo) == [hi |-> hi, lo |-> lo]

u32_of(n) == U32(n \div Limb, n % Limb)

u32_MAX == U32(Limb - 1, Limb - 1)

u32_zero(n) == n.hi = 0 /\ n.lo = 0

\* n - c for a count 0 <= c < 2^16, wrapping modulo 2^32
u32_sub(n, c) ==
  IF n.lo >= c THEN U32(n.hi, n.lo - c)
  ELSE U32((n.hi + Limb - 1) % Limb, n.lo + Limb - c)

\* a <= b
u32_leq(a, b) == a.hi < b.hi \/ (a.hi = b.hi /\ a.lo <= b.lo)

\* the u32 n is at least the small count c
u32_geq_nat(n, c) == n.hi > 0 \/ n.lo >= c

(***************************************************************************)
(* The ordered store of a backend transaction: a sequence of <<key, val>>  *)
(* pairs in strictly ascending key order.                                  *)
(***************************************************************************)
RECURSIVE lower_bound(_, _, _, _)
\* the number of entries of kv[lo+1 .. hi] and before whose key is < k
lower_bound(kv, k, lo, hi) ==
  IF lo >= hi THEN lo
  ELSE LET mid == (lo + hi + 1) \div 2 IN
       IF KeyLess(kv[mid][1], k) THEN lower_bound(kv, k, mid, hi)
       ELSE lower_bound(kv, k, lo, mid - 1)

Rank(kv, k) == lower_bound(kv, k, 0, Len(kv))

Has(kv, k) == LET p == Rank(kv, k) IN p < Len(kv) /\ kv[p + 1][1] = k

\* Option<Val>: <<>> is None, <<v>> is Some(v)
Lookup(kv, k) ==
  LET p == Rank(kv, k) IN
  IF p < Len(kv) /\ kv[p + 1][1] = k THEN <<kv[p + 1][2]>> ELSE <<>>

Insert(kv, k, v) ==
  LET p == Rank(kv, k) IN
  IF p < Len(kv) /\ kv[p + 1][1] = k
  THEN [kv EXCEPT ![p + 1] = <<k, v>>]
  ELSE SubSeq(kv, 1, p) \o <<(<<k, v>>)>> \o SubSeq(kv, p + 1, Len(kv))

Remove(kv, k) ==
  LET p == Rank(kv, k) IN
  IF p < Len(kv) /\ kv[p + 1][1] = k
  THEN SubSeq(kv, 1, p) \o SubSeq(kv, p + 2, Len(kv))
  ELSE kv

\* at most `limit` entries with beg <= key < end, ascending
Slice(kv, beg, end, limit) ==
  LET lo == Rank(kv, beg)
      hi == Rank(kv, end)
  IN  SubSeq(kv, lo + 1, MinOf(hi, lo + limit))

KeysOf(kv) == {kv[i][1] : i \in 1..Len(kv)}

Sorted(kv) == \A i \in 1..(Len(kv) - 1) : KeyLess(kv[i][1], kv[i + 1][1])

(***************************************************************************)
(* The backend transaction `v` (kvs/mem.rs, kvs/file.rs, kvs/ixdb.rs,      *)
(* kvs/tikv.rs, kvs/fdb.rs), by its contract.  A handle value t is         *)
(*   closed  the transaction has been committed or cancelled               *)
(*   rw      the transaction was opened writeable                          *)
(*   kv      the transaction's view of the store                           *)
(*   io      the environment: the number of backend calls that succeed     *)
(*           before one fails with Io (NoFault: none fails)                *)
(*   cf      the environment: the backend reports a conflict at commit     *)
(*   log     the backend calls issued so far by the running operation      *)
(* Every primitive checks `closed` first, a write then checks `rw`.        *)
(***************************************************************************)
NoFault == 0 - 1

R(t, err, val) == [t |-> t, err |-> err, val |-> val]

Logged(t, op, a) == [t EXCEPT !.log = Append(@, [op |-> op, a |-> a])]

\* one more backend call has succeeded
Tick(t) == [t EXCEPT !.io = IF @ > 0 THEN @ - 1 ELSE @]

\* the backend call fails with Io
Struck(t) == [t EXCEPT !.io = NoFault]

\* the limit of a scan as a count of entries of the store at hand
Cap(kv, limit) == IF limit.hi > 0 THEN Len(kv) ELSE MinOf(limit.lo, Len(kv))

v_closed(t) == t.closed

v_cancel(t) ==
  LET t1 == Logged(t, "cancel", <<>>) IN
  IF t.closed THEN R(t1, "TxFinished", <<>>)
  ELSE R([t1 EXCEPT !.closed = TRUE], "Ok", <<>>)

v_commit(t) ==
  LET t1 == Logged(t, "commit", <<>>) IN
  IF t.closed THEN R(t1, "TxFinished", <<>>)
  ELSE IF t.io = 0 THEN R([Struck(t1) EXCEPT !.closed = TRUE], "Io", <<>>)
  ELSE IF t.cf THEN R([t1 EXCEPT !.closed = TRUE], "TxConflict", <<>>)
  ELSE R([Tick(t1) EXCEPT !.closed = TRUE], "Ok", <<>>)

v_del(t, k) ==
  LET t1 == Logged(t, "del", <<k>>) IN
  IF t.closed THEN R(t1, "TxFinished", <<>>)
  ELSE IF ~t.rw THEN R(t1, "TxReadOnly", <<>>)
  ELSE IF t.io = 0 THEN R(Struck(t1), "Io", <<>>)
  ELSE R([Tick(t1) EXCEPT !.kv = Remove(@, k)], "Ok", <<>>)

v_exi(t, k) ==
  LET t1 == Logged(t, "exi", <<k>>) IN
  IF t.closed THEN R(t1, "TxFinished", <<>>)
  ELSE IF t.io = 0 THEN R(Struck(t1), "Io", <<>>)
  ELSE R(Tick(t1), "Ok", Has(t.kv, k))

v_get(t, k) ==
  LET t1 == Logged(t, "get", <<k>>) IN
  IF t.closed THEN R(t1, "TxFinished", <<>>)
  ELSE IF t.io = 0 THEN R(Struck(t1), "Io", <<>>)
  ELSE R(Tick(t1), "Ok", Lookup(t.kv, k))

v_set(t, k, v) ==
  LET t1 == Logged(t, "set", <<k, v>>) IN
  IF t.closed THEN R(t1, "TxFinished", <<>>)
  ELSE IF ~t.rw THEN R(t1, "TxReadOnly", <<>>)
  ELSE IF t.io = 0 THEN R(Struck(t1), "Io", <<>>)
  ELSE R([Tick(t1) EXCEPT !.kv = Insert(@, k, v)], "Ok", <<>>)

v_put(t, k, v) ==
  LET t1 == Logged(t, "put", <<k, v>>) IN
  IF t.closed THEN R(t1, "TxFinished", <<>>)
  ELSE IF ~t.rw THEN R(t1, "TxReadOnly", <<>>)
  ELSE IF t.io = 0 THEN R(Struck(t1), "Io", <<>>)
  ELSE IF Has(t.kv, k) THEN R(Tick(t1), "TxKeyAlreadyExists", <<>>)
  ELSE R([Tick(t1) EXCEPT !.kv = Insert(@, k, v)], "Ok", <<>>)

v_scan(t, beg, end, limit) ==
  LET t1 == Logged(t, "scan", <<beg, end, limit>>) IN
  IF t.closed THEN R(t1, "TxFinished", <<>>)
  ELSE IF t.io = 0 THEN R(Struck(t1), "Io", <<>>)
  ELSE R(Tick(t1), "Ok", Slice(t.kv, beg, end, Cap(t.kv, limit)))

\* chk is an Option<Val>: the write happens iff the current value is chk
\* (None: iff the key is absent)
v_putc(t, k, v, chk) ==
  LET t1 == Logged(t, "putc", <<k, v, chk>>) IN
  IF t.closed THEN R(t1, "TxFinished", <<>>)
  ELSE IF ~t.rw THEN R(t1, "TxReadOnly", <<>>)
  ELSE IF t.io = 0 THEN R(Struck(t1), "Io", <<>>)
  ELSE IF Lookup(t.kv, k) # chk THEN R(Tick(t1), "TxConditionNotMet", <<>>)
  ELSE R([Tick(t1) EXCEPT !.kv = Insert(@, k, v)], "Ok", <<>>)

v_delc(t, k, chk) ==
  LET t1 == Logged(t, "delc", <<k, chk>>) IN
  IF t.closed THEN R(t1, "TxFinished", <<>>)
  ELSE IF ~t.rw THEN R(t1, "TxReadOnly", <<>>)
  ELSE IF t.io = 0 THEN R(Struck(t1), "Io", <<>>)
  ELSE IF Lookup(t.kv, k) # chk THEN R(Tick(t1), "TxConditionNotMet", <<>>)
  ELSE R([Tick(t1) EXCEPT !.kv = Remove(@, k)], "Ok", <<>>)

(***************************************************************************)
(* Transaction: the dispatch of each primitive to the backend transaction. *)
(***************************************************************************)
closed(t) == v_closed(t)

cancel(t) == v_cancel(t)

\* commit as a match arm that reports success without reaching the backend
commit_unsent(t) == R(t, "Ok", <<>>)

commit(t) == v_commit(t)

del(t, key) == v_del(t, key)

exi(t, key) == v_exi(t, key)

get(t, key) == v_get(t, key)

\* set dispatched to the backend's insert-if-absent
set_as_put(t, key, val) == v_put(t, key, val)

set(t, key, val) == v_set(t, key, val)

\* put dispatched to the backend's unconditional write
put_as_set(t, key, val) == v_set(t, key, val)

put(t, key, val) == v_put(t, key, val)

\* a backend scan that returns one entry more than it was asked for
scan_overlong(t, beg, end, limit) ==
  LET r == v_scan(t, beg, end, IF limit.hi > 0 THEN limit ELSE U32(0, limit.lo + 1))
  IN  [r EXCEPT !.t.log = Logged(t, "scan", <<beg, end, limit>>).log]

scan(t, beg, end, limit) == v_scan(t, beg, end, limit)

\* putc dispatched to the backend's unconditional write, the check dropped
putc_as_set(t, key, val, chk) == v_set(t, key, val)

putc(t, key, val, chk) == v_putc(t, key, val, chk)

delc(t, key, chk) == v_delc(t, key, chk)

(***************************************************************************)
(* The paged range and prefix operations: batches of at most 1000 entries. *)
(***************************************************************************)
\* the batch size taken as the window whatever remains of the limit
getr_limit_window(num) == u32_of(1000)

\* std::cmp::min(1000, num): the size of the next batch
getr_limit(num) == IF num.hi > 0 \/ num.lo > 1000 THEN u32_of(1000) ELSE num

\* the cursor advanced by appending 0x01 instead of 0x00
getr_min_one(beg, nxt) == IF nxt = <<>> THEN beg ELSE push(nxt[1], 1)

\* the start of the next batch: the range's start, or the last key seen
\* followed by 0x00
getr_min(beg, nxt) == IF nxt = <<>> THEN beg ELSE push(nxt[1], 0)

\* the last entry of a batch kept as the cursor only, not pushed to the output
getr_body_cursor_only(s, res, i) ==
  [s EXCEPT !.nxt = IF Len(res) = i THEN <<res[i][1]>> ELSE @,
            !.out = IF Len(res) = i THEN @ ELSE Append(@, res[i]),
            !.num = u32_sub(@, 1)]

\* one turn of the `for` loop over the batch: entry i of the n entries of res
getr_body(s, res, i) ==
  [s EXCEPT !.nxt = IF Len(res) = i THEN <<res[i][1]>> ELSE @,
            !.out = Append(@, res[i]),
            !.num = u32_sub(@, 1)]

RECURSIVE getr_for(_, _, _, _)
\* the `for` loop over entries lo .. hi of the batch, in order
getr_for(s, res, lo, hi) ==
  IF lo = hi THEN getr_body(s, res, lo)
  ELSE LET mid == (lo + hi) \div 2
           s1 == getr_for(s, res, lo, mid)
       IN  IF s1.err # "Ok" THEN s1 ELSE getr_for(s1, res, mid + 1, hi)

RECURSIVE getr_loop(_, _, _, _, _, _)
\* the loop leaving on a batch shorter than the window, before reading it
getr_loop_short(t, beg, end, nxt, num, out) ==
  IF u32_zero(num) THEN R(t, "Ok", out)
  ELSE LET r == scan(t, getr_min(beg, nxt), end, getr_limit(num)) IN
       IF r.err # "Ok" THEN R(r.t, r.err, <<>>)
       ELSE LET res == r.val
                n == Len(res)
            IN  IF n < 1000 THEN R(r.t, "Ok", out)
                ELSE LET s == getr_for([t |-> r.t, nxt |-> nxt, num |-> num, out |-> out, err |-> "Ok"], res, 1, n) IN
                     getr_loop(s.t, beg, end, s.nxt, s.num, s.out)

\* the `while num > 0` loop; nxt is an Option<Key>
getr_loop(t, beg, end, nxt, num, out) ==
  IF u32_zero(num) THEN R(t, "Ok", out)
  ELSE LET r == scan(t, getr_min(beg, nxt), end, getr_limit(num)) IN
       IF r.err # "Ok" THEN R(r.t, r.err, <<>>)
       ELSE LET res == r.val
                n == Len(res)
            IN  IF n = 0 THEN R(r.t, "Ok", out)
                ELSE LET s == getr_for([t |-> r.t, nxt |-> nxt, num |-> num, out |-> out, err |-> "Ok"], res, 1, n) IN
                     IF s.err # "Ok" THEN R(s.t, s.err, <<>>)
                     ELSE getr_loop(s.t, beg, end, s.nxt, s.num, s.out)

getr(t, beg, end, limit) ==
  getr_loop(t, beg, end, <<>>, limit, <<>>)

\* std::cmp::min(1000, num): the size of the next batch
delr_limit(num) == IF num.hi > 0 \/ num.lo > 1000 THEN u32_of(1000) ELSE num

\* the start of the next batch: the range's start, or the last key seen
\* followed by 0x00
delr_min(beg, nxt) == IF nxt = <<>> THEN beg ELSE push(nxt[1], 0)

\* the deletion of the last entry of a batch left out of the count
delr_body_uncounted(s, res, i) ==
  IF s.err # "Ok" THEN s
  ELSE LET d == del(s.t, res[i][1]) IN
       [s EXCEPT !.nxt = IF Len(res) = i THEN <<res[i][1]>> ELSE @,
                 !.t = d.t,
                 !.err = d.err,
                 !.num = IF d.err = "Ok" /\ Len(res) # i THEN u32_sub(@, 1) ELSE @]

\* one turn of the `for` loop over the batch: entry i of the n entries of res;
\* a failed del has left the function
delr_body(s, res, i) ==
  IF s.err # "Ok" THEN s
  ELSE LET d == del(s.t, res[i][1]) IN
       [s EXCEPT !.nxt = IF Len(res) = i THEN <<res[i][1]>> ELSE @,
                 !.t = d.t,
                 !.err = d.err,
                 !.num = IF d.err = "Ok" THEN u32_sub(@, 1) ELSE @]

RECURSIVE delr_for(_, _, _, _)
\* the `for` loop over entries lo .. hi of the batch, in order
delr_for(s, res, lo, hi) ==
  IF lo = hi THEN delr_body(s, res, lo)
  ELSE LET mid == (lo + hi) \div 2
           s1 == delr_for(s, res, lo, mid)
       IN  IF s1.err # "Ok" THEN s1 ELSE delr_for(s1, res, mid + 1, hi)

RECURSIVE delr_loop(_, _, _, _, _)
\* the loop left as soon as a batch comes back shorter than requested
delr_loop_short(t, beg, end, nxt, num) ==
  IF u32_zero(num) THEN R(t, "Ok", <<>>)
  ELSE LET r == scan(t, delr_min(beg, nxt), end, delr_limit(num)) IN
       IF r.err # "Ok" THEN R(r.t, r.err, <<>>)
       ELSE LET res == r.val
                n == Len(res)
            IN  IF n = 0 THEN R(r.t, "Ok", <<>>)
                ELSE LET s == delr_for([t |-> r.t, nxt |-> nxt, num |-> num, err |-> "Ok"], res, 1, n) IN
                     IF s.err # "Ok" THEN R(s.t, s.err, <<>>)
                     ELSE IF n < delr_limit(num).lo THEN R(s.t, "Ok", <<>>)
                     ELSE delr_loop(s.t, beg, end, s.nxt, s.num)

\* the `while num > 0` loop; nxt is an Option<Key>
delr_loop(t, beg, end, nxt, num) ==
  IF u32_zero(num) THEN R(t, "Ok", <<>>)
  ELSE LET r == scan(t, delr_min(beg, nxt), end, delr_limit(num)) IN
       IF r.err # "Ok" THEN R(r.t, r.err, <<>>)
       ELSE LET res == r.val
                n == Len(res)
            IN  IF n = 0 THEN R(r.t, "Ok", <<>>)
                ELSE LET s == delr_for([t |-> r.t, nxt |-> nxt, num |-> num, err |-> "Ok"], res, 1, n) IN
                     IF s.err # "Ok" THEN R(s.t, s.err, <<>>)
                     ELSE delr_loop(s.t, beg, end, s.nxt, s.num)

delr(t, beg, end, limit) ==
  delr_loop(t, beg, end, <<>>, limit)

\* std::cmp::min(1000, num): the size of the next batch
getp_limit(num) == IF num.hi > 0 \/ num.lo > 1000 THEN u32_of(1000) ELSE num

\* the start of the next batch: the range's start, or the last key seen
\* followed by 0x00
getp_min(beg, nxt) == IF nxt = <<>> THEN beg ELSE push(nxt[1], 0)

\* the scanned range left open to the end of the keyspace
getp_end_open(key) == <<255>>

\* the end of the scanned range: the prefix followed by 0xff
getp_end(key) == add(key, 255)

\* one turn of the `for` loop over the batch: entry i of the n entries of res
getp_body(s, res, i) ==
  [s EXCEPT !.nxt = IF Len(res) = i THEN <<res[i][1]>> ELSE @,
            !.out = Append(@, res[i]),
            !.num = u32_sub(@, 1)]

RECURSIVE getp_for(_, _, _, _)
\* the `for` loop over entries lo .. hi of the batch, in order
getp_for(s, res, lo, hi) ==
  IF lo = hi THEN getp_body(s, res, lo)
  ELSE LET mid == (lo + hi) \div 2
           s1 == getp_for(s, res, lo, mid)
       IN  IF s1.err # "Ok" THEN s1 ELSE getp_for(s1, res, mid + 1, hi)

RECURSIVE getp_loop(_, _, _, _, _, _)
\* the loop as a do-while: the limit is looked at after the batch, not before
getp_loop_probed(t, beg, end, nxt, num, out) ==
  LET r == scan(t, getp_min(beg, nxt), end, getp_limit(num)) IN
  IF r.err # "Ok" THEN R(r.t, r.err, <<>>)
  ELSE LET res == r.val
           n == Len(res)
       IN  IF n = 0 THEN R(r.t, "Ok", out)
           ELSE LET s == getp_for([t |-> r.t, nxt |-> nxt, num |-> num, out |-> out, err |-> "Ok"], res, 1, n) IN
                IF s.err # "Ok" THEN R(s.t, s.err, <<>>)
                ELSE IF u32_zero(s.num) THEN R(s.t, "Ok", s.out)
                ELSE getp_loop(s.t, beg, end, s.nxt, s.num, s.out)

\* the `while num > 0` loop; nxt is an Option<Key>
getp_loop(t, beg, end, nxt, num, out) ==
  IF u32_zero(num) THEN R(t, "Ok", out)
  ELSE LET r == scan(t, getp_min(beg, nxt), end, getp_limit(num)) IN
       IF r.err # "Ok" THEN R(r.t, r.err, <<>>)
       ELSE LET res == r.val
                n == Len(res)
            IN  IF n = 0 THEN R(r.t, "Ok", out)
                ELSE LET s == getp_for([t |-> r.t, nxt |-> nxt, num |-> num, out |-> out, err |-> "Ok"], res, 1, n) IN
                     IF s.err # "Ok" THEN R(s.t, s.err, <<>>)
                     ELSE getp_loop(s.t, beg, end, s.nxt, s.num, s.out)

getp(t, key, limit) ==
  LET beg == key
      end == getp_end(beg)
  IN  getp_loop(t, beg, end, <<>>, limit, <<>>)

\* std::cmp::min(500, num): batches of half the size
delp_limit_half(num) == IF num.hi > 0 \/ num.lo > 500 THEN u32_of(500) ELSE num

\* std::cmp::min(1000, num): the size of the next batch
delp_limit(num) == IF num.hi > 0 \/ num.lo > 1000 THEN u32_of(1000) ELSE num

\* the cursor advanced by appending 0x01 instead of 0x00
delp_min_one(beg, nxt) == IF nxt = <<>> THEN beg ELSE push(nxt[1], 1)

\* the start of the next batch: the range's start, or the last key seen
\* followed by 0x00
delp_min(beg, nxt) == IF nxt = <<>> THEN beg ELSE push(nxt[1], 0)

\* the end of the scanned range: the prefix followed by 0xff
delp_end(key) == add(key, 255)

\* one turn of the `for` loop over the batch: entry i of the n entries of res;
\* a failed del has left the function
delp_body(s, res, i) ==
  IF s.err # "Ok" THEN s
  ELSE LET d == del(s.t, res[i][1]) IN
       [s EXCEPT !.nxt = IF Len(res) = i THEN <<res[i][1]>> ELSE @,
                 !.t = d.t,
                 !.err = d.err,
                 !.num = IF d.err = "Ok" THEN u32_sub(@, 1) ELSE @]

RECURSIVE delp_for(_, _, _, _)
\* the `for` loop over entries lo .. hi of the batch, in order
delp_for(s, res, lo, hi) ==
  IF lo = hi THEN delp_body(s, res, lo)
  ELSE LET mid == (lo + hi) \div 2
           s1 == delp_for(s, res, lo, mid)
       IN  IF s1.err # "Ok" THEN s1 ELSE delp_for(s1, res, mid + 1, hi)

RECURSIVE delp_loop(_, _, _, _, _)
\* the `while num > 0` loop; nxt is an Option<Key>
delp_loop(t, beg, end, nxt, num) ==
  IF u32_zero(num) THEN R(t, "Ok", <<>>)
  ELSE LET r == scan(t, delp_min(beg, nxt), end, delp_limit(num)) IN
       IF r.err # "Ok" THEN R(r.t, r.err, <<>>)
       ELSE LET res == r.val
                n == Len(res)
            IN  IF n = 0 THEN R(r.t, "Ok", <<>>)
                ELSE LET s == delp_for([t |-> r.t, nxt |-> nxt, num |-> num, err |-> "Ok"], res, 1, n) IN
                     IF s.err # "Ok" THEN R(s.t, s.err, <<>>)
                     ELSE delp_loop(s.t, beg, end, s.nxt, s.num)

delp(t, key, limit) ==
  LET beg == key
      end == delp_end(beg)
  IN  delp_loop(t, beg, end, <<>>, limit)

(***************************************************************************)
(* The state machine.  tx is the Transaction of the owning task, ret the   *)
(* outcome of the call in progress: the operation, its arguments, the      *)
(* error or "Ok", the value returned and the backend calls it issued.      *)
(* The owner calls one operation at a time and takes its result (Return)   *)
(* before the next call.                                                   *)
(***************************************************************************)
\* the keys of the small store, ascending: A, A + 0x00, A + 0xff, B
SKeys == << <<1>>, <<1, 0>>, <<1, 255>>, <<2>> >>

Keys == {SKeys[i] : i \in 1..Len(SKeys)}

Vals == {<<v>> : v \in 1..MaxVal}

\* Option<Val>
OptVals == {<<>>} \cup {<<v>> : v \in Vals}

\* the store that holds SKeys[i] with value <<f[i]>> where f[i] > 0
StoreOf(f) ==
  SelectSeq([i \in 1..Len(SKeys) |-> <<SKeys[i], <<f[i]>> >>],
            LAMBDA e : e[2] # <<0>>)

\* the stores a transaction is opened on: any of the keys, each with the first
\* value; the writes of a writeable transaction reach the other values
Stores == {StoreOf(f) : f \in [1..Len(SKeys) -> 0..1]}

\* ranges <<beg, end>>: everything, the prefix range of A, from inside it to
\* B, an empty and a reversed range
Ranges ==
  { << <<>>, <<255>> >>, << <<1>>, <<1, 255>> >>, << <<1, 0>>, <<2>> >>,
    << <<1>>, <<2>> >>, << <<2>>, <<2>> >>, << <<2>>, <<1>> >> }

Prefixes == { <<>>, <<1>>, <<1, 0>>, <<2>> }

Limits == { u32_of(0), u32_of(1), u32_of(2), u32_MAX }

\* no backend call fails, or the first, or the second of the operation
Faults == {NoFault, 0, 1}

\* the same for an operation that makes one backend call
CallFaults == {NoFault, 0}

Idle ==
  [op |-> "none", a |-> <<>>, io |-> NoFault, cf |-> FALSE,
   err |-> "Ok", val |-> <<>>, log |-> <<>>]

\* the handle as an operation finds it, in the environment (f, c)
Call(f, c) ==
  [closed |-> tx.closed, rw |-> tx.rw, kv |-> tx.kv,
   io |-> f, cf |-> c, log |-> <<>>]

\* the handle an operation leaves
Handle(t) == [closed |-> t.closed, rw |-> t.rw, kv |-> t.kv]

\* the outcome of the operation op(a) that has run to r in the environment
\* (f, c)
Outcome(op, a, f, c, r) ==
  [op |-> op, a |-> a, io |-> f, cf |-> c,
   err |-> r.err, val |-> r.val, log |-> r.t.log]

Init ==
  /\ tx \in [closed : {FALSE}, rw : BOOLEAN, kv : Stores]
  /\ ret = Idle

Closed ==
  LET t == Call(NoFault, FALSE)
      r == R(t, "Ok", closed(t))
  IN  /\ ret.op = "none"
      /\ tx' = Handle(r.t)
      /\ ret' = Outcome("closed", <<>>, NoFault, FALSE, r)

Cancel ==
  \E f \in CallFaults :
    LET r == cancel(Call(f, FALSE)) IN
    /\ ret.op = "none"
    /\ tx' = Handle(r.t)
    /\ ret' = Outcome("cancel", <<>>, f, FALSE, r)

Commit ==
  \E f \in CallFaults, c \in BOOLEAN :
    LET r == commit(Call(f, c)) IN
    /\ ret.op = "none"
    /\ tx' = Handle(r.t)
    /\ ret' = Outcome("commit", <<>>, f, c, r)

Del ==
  \E k \in Keys, f \in CallFaults :
    LET r == del(Call(f, FALSE), k) IN
    /\ ret.op = "none"
    /\ tx' = Handle(r.t)
    /\ ret' = Outcome("del", <<k>>, f, FALSE, r)

Exi ==
  \E k \in Keys, f \in CallFaults :
    LET r == exi(Call(f, FALSE), k) IN
    /\ ret.op = "none"
    /\ tx' = Handle(r.t)
    /\ ret' = Outcome("exi", <<k>>, f, FALSE, r)

Get ==
  \E k \in Keys, f \in CallFaults :
    LET r == get(Call(f, FALSE), k) IN
    /\ ret.op = "none"
    /\ tx' = Handle(r.t)
    /\ ret' = Outcome("get", <<k>>, f, FALSE, r)

Set ==
  \E k \in Keys, v \in Vals, f \in CallFaults :
    LET r == set(Call(f, FALSE), k, v) IN
    /\ ret.op = "none"
    /\ tx' = Handle(r.t)
    /\ ret' = Outcome("set", <<k, v>>, f, FALSE, r)

Put ==
  \E k \in Keys, v \in Vals, f \in CallFaults :
    LET r == put(Call(f, FALSE), k, v) IN
    /\ ret.op = "none"
    /\ tx' = Handle(r.t)
    /\ ret' = Outcome("put", <<k, v>>, f, FALSE, r)

Scan ==
  \E rng \in Ranges, l \in Limits, f \in CallFaults :
    LET r == scan(Call(f, FALSE), rng[1], rng[2], l) IN
    /\ ret.op = "none"
    /\ tx' = Handle(r.t)
    /\ ret' = Outcome("scan", <<rng[1], rng[2], l>>, f, FALSE, r)

Putc ==
  \E k \in Keys, v \in Vals, chk \in OptVals, f \in CallFaults :
    LET r == putc(Call(f, FALSE), k, v, chk) IN
    /\ ret.op = "none"
    /\ tx' = Handle(r.t)
    /\ ret' = Outcome("putc", <<k, v, chk>>, f, FALSE, r)

Delc ==
  \E k \in Keys, chk \in OptVals, f \in CallFaults :
    LET r == delc(Call(f, FALSE), k, chk) IN
    /\ ret.op = "none"
    /\ tx' = Handle(r.t)
    /\ ret' = Outcome("delc", <<k, chk>>, f, FALSE, r)

Getr ==
  \E rng \in Ranges, l \in Limits, f \in Faults :
    LET r == getr(Call(f, FALSE), rng[1], rng[2], l) IN
    /\ ret.op = "none"
    /\ tx' = Handle(r.t)
    /\ ret' = Outcome("getr", <<rng[1], rng[2], l>>, f, FALSE, r)

Delr ==
  \E rng \in Ranges, l \in Limits, f \in Faults :
    LET r == delr(Call(f, FALSE), rng[1], rng[2], l) IN
    /\ ret.op = "none"
    /\ tx' = Handle(r.t)
    /\ ret' = Outcome("delr", <<rng[1], rng[2], l>>, f, FALSE, r)

Getp ==
  \E p \in Prefixes, l \in Limits, f \in Faults :
    LET r == getp(Call(f, FALSE), p, l) IN
    /\ ret.op = "none"
    /\ tx' = Handle(r.t)
    /\ ret' = Outcome("getp", <<p, l>>, f, FALSE, r)

Delp ==
  \E p \in Prefixes, l \in Limits, f \in Faults :
    LET r == delp(Call(f, FALSE), p, l) IN
    /\ ret.op = "none"
    /\ tx' = Handle(r.t)
    /\ ret' = Outcome("delp", <<p, l>>, f, FALSE, r)

\* the owner takes the result; the handle is ready for the next call
Return ==
  /\ ret.op # "none"
  /\ ret' = Idle
  /\ UNCHANGED tx

Next ==
  \/ Closed \/ Cancel \/ Commit
  \/ Del \/ Exi \/ Get \/ Set \/ Put \/ Scan \/ Putc \/ Delc
  \/ Getr \/ Delr \/ Getp \/ Delp
  \/ Return

Spec == Init /\ [][Next]_vars

(***************************************************************************)
(* The paged operations over stores larger than one batch: the keys        *)
(* k0000, k0001, ... (each mapped to itself), read and deleted through     *)
(* ranges and prefixes that hold more entries than the batch size.         *)
(***************************************************************************)
\* the key "k" followed by the four decimal digits of i
PKey(i) ==
  <<107, 48 + (i \div 1000), 48 + ((i \div 100) % 10),
    48 + ((i \div 10) % 10), 48 + (i % 10)>>

\* the store that holds k0000 .. k(n-1), each mapped to itself
Preload(n) == [j \in 1..n |-> <<PKey(j - 1), PKey(j - 1)>>]

\* the numbers of preloaded keys: below, at, one above and more than twice
\* the batch size
PageSizes == {1, 1000, 1001, 2500}

\* the preloaded stores, and those that also hold the key that follows the
\* last key of the first batch, k0999 + 0x00
PageStores ==
  {Preload(n) : n \in PageSizes}
    \cup {Insert(Preload(n), push(PKey(999), 0), <<7>>) : n \in {1000, 2500}}

\* k0000 .. k9999, and the range of the prefix "k0"
PageRanges == { <<PKey(0), PKey(9999)>>, << <<107, 48>>, <<107, 48, 255>> >> }

\* "k" and "k0"
PagePrefixes == { <<107>>, <<107, 48>> }

PageLimits == { u32_of(0), u32_of(1000), u32_of(1001), u32_MAX }

PageInit ==
  /\ tx \in [closed : {FALSE}, rw : {TRUE}, kv : PageStores]
  /\ ret = Idle

PageGetr ==
  \E rng \in PageRanges, l \in PageLimits :
    LET r == getr(Call(NoFault, FALSE), rng[1], rng[2], l) IN
    /\ ret.op = "none"
    /\ tx' = Handle(r.t)
    /\ ret' = Outcome("getr", <<rng[1], rng[2], l>>, NoFault, FALSE, r)

PageDelr ==
  \E rng \in PageRanges, l \in PageLimits :
    LET r == delr(Call(NoFault, FALSE), rng[1], rng[2], l) IN
    /\ ret.op = "none"
    /\ tx' = Handle(r.t)
    /\ ret' = Outcome("delr", <<rng[1], rng[2], l>>, NoFault, FALSE, r)

PageGetp ==
  \E p \in PagePrefixes, l \in PageLimits :
    LET r == getp(Call(NoFault, FALSE), p, l) IN
    /\ ret.op = "none"
    /\ tx' = Handle(r.t)
    /\ ret' = Outcome("getp", <<p, l>>, NoFault, FALSE, r)

PageDelp ==
  \E p \in PagePrefixes, l \in PageLimits :
    LET r == delp(Call(NoFault, FALSE), p, l) IN
    /\ ret.op = "none"
    /\ tx' = Handle(r.t)
    /\ ret' = Outcome("delp", <<p, l>>, NoFault, FALSE, r)

PageNext == PageGetr \/ PageDelr \/ PageGetp \/ PageDelp \/ Return

SpecPage == PageInit /\ [][PageNext]_vars

(***************************************************************************)
(* The catalog: key encoders (crate::key), value codecs (crate::sql) and   *)
(* the cache (kvs/cache.rs), by their contract.  A name is one byte other  *)
(* than 0x00 and 0xff; a key is the kind's tag, the names of its scope and *)
(* the entity's name; the keys of a scope lie between its prefix (ending   *)
(* in 0x00) and its suffix (ending in 0xff).                               *)
(***************************************************************************)
ns_new(ns) == <<110, ns>>

ns_prefix == <<110, 0>>

ns_suffix == <<110, 255>>

db_new(ns, db) == <<100, ns, db>>

db_prefix(ns) == <<100, ns, 0>>

db_suffix(ns) == <<100, ns, 255>>

tb_new(ns, db, tb) == <<116, ns, db, tb>>

tb_prefix(ns, db) == <<116, ns, db, 0>>

tb_suffix(ns, db) == <<116, ns, db, 255>>

\* DefineNamespaceStatement { name } and its stored form
Namespace(name) == [name |-> name]

ns_val(e) == <<1, e.name>>

ns_into(v) == [name |-> v[2]]

\* DefineDatabaseStatement { name } and its stored form
Database(name) == [name |-> name]

db_val(e) == <<2, e.name>>

db_into(v) == [name |-> v[2]]

\* DefineTableStatement { name, permissions, .. } and its stored form; the
\* permissions are none (0) or full (1)
Table(name, permissions) == [name |-> name, permissions |-> permissions]

tb_val(e) == <<3, e.name, IF e.permissions = "none" THEN 0 ELSE 1>>

tb_into(v) == [name |-> v[2], permissions |-> IF v[3] = 0 THEN "none" ELSE "full"]

\* Convert: a scanned list of (Key, Val) decoded into a list of entities
ns_convert(val) == [i \in 1..Len(val) |-> ns_into(val[i][2])]

tb_convert(val) == [i \in 1..Len(val) |-> tb_into(val[i][2])]

\* Cache: a map from encoded keys to entries [tag, v]
cache_exi(c, k) == k \in DOMAIN c

cache_get(c, k) == c[k]

cache_set(c, k, e) == [x \in DOMAIN c \cup {k} |-> IF x = k THEN e ELSE c[x]]

cache_new == [x \in {} |-> <<>>]

(***************************************************************************)
(* Transaction: the cached list accessors.                                 *)
(***************************************************************************)
\* all_ns reading the store at every call, the cache entry replaced
all_ns_uncached(t) ==
  LET g == getr(t, ns_prefix, ns_suffix, u32_MAX) IN
  IF g.err # "Ok" THEN R(g.t, g.err, <<>>)
  ELSE LET val == ns_convert(g.val) IN
       R([g.t EXCEPT !.cache = cache_set(@, ns_prefix, [tag |-> "Nss", v |-> val])],
         "Ok", val)

all_ns(t) ==
  LET key == ns_prefix IN
  IF cache_exi(t.cache, key)
  THEN LET e == cache_get(t.cache, key) IN
       IF e.tag = "Nss" THEN R(t, "Ok", e.v) ELSE R(t, "unreachable", <<>>)
  ELSE LET g == getr(t, ns_prefix, ns_suffix, u32_MAX) IN
       IF g.err # "Ok" THEN R(g.t, g.err, <<>>)
       ELSE LET val == ns_convert(g.val) IN
            R([g.t EXCEPT !.cache = cache_set(@, key, [tag |-> "Nss", v |-> val])],
              "Ok", val)

all_tb(t, ns, db) ==
  LET key == tb_prefix(ns, db) IN
  IF cache_exi(t.cache, key)
  THEN LET e == cache_get(t.cache, key) IN
       IF e.tag = "Tbs" THEN R(t, "Ok", e.v) ELSE R(t, "unreachable", <<>>)
  ELSE LET g == getr(t, tb_prefix(ns, db), tb_suffix(ns, db), u32_MAX) IN
       IF g.err # "Ok" THEN R(g.t, g.err, <<>>)
       ELSE LET val == tb_convert(g.val) IN
            R([g.t EXCEPT !.cache = cache_set(@, key, [tag |-> "Tbs", v |-> val])],
              "Ok", val)

(***************************************************************************)
(* Transaction: the singular accessors, uncached and cached.               *)
(***************************************************************************)
get_ns(t, ns) ==
  LET g == get(t, ns_new(ns)) IN
  IF g.err # "Ok" THEN R(g.t, g.err, <<>>)
  ELSE IF g.val = <<>> THEN R(g.t, "NsNotFound", <<>>)
  ELSE R(g.t, "Ok", ns_into(g.val[1]))

get_db(t, ns, db) ==
  LET g == get(t, db_new(ns, db)) IN
  IF g.err # "Ok" THEN R(g.t, g.err, <<>>)
  ELSE IF g.val = <<>> THEN R(g.t, "DbNotFound", <<>>)
  ELSE R(g.t, "Ok", db_into(g.val[1]))

get_tb(t, ns, db, tb) ==
  LET g == get(t, tb_new(ns, db, tb)) IN
  IF g.err # "Ok" THEN R(g.t, g.err, <<>>)
  ELSE IF g.val = <<>> THEN R(g.t, "TbNotFound", <<>>)
  ELSE R(g.t, "Ok", tb_into(g.val[1]))

\* get_and_cache_ns keeping the namespace under the key of the list of
\* namespaces
get_and_cache_ns_listed(t, ns) ==
  LET key == ns_new(ns) IN
  IF cache_exi(t.cache, key)
  THEN LET e == cache_get(t.cache, key) IN
       IF e.tag = "Ns" THEN R(t, "Ok", e.v) ELSE R(t, "unreachable", <<>>)
  ELSE LET g == get(t, key) IN
       IF g.err # "Ok" THEN R(g.t, g.err, <<>>)
       ELSE IF g.val = <<>> THEN R(g.t, "NsNotFound", <<>>)
       ELSE LET val == ns_into(g.val[1]) IN
            R([g.t EXCEPT !.cache = cache_set(@, ns_prefix, [tag |-> "Ns", v |-> val])],
              "Ok", val)

get_and_cache_ns(t, ns) ==
  LET key == ns_new(ns) IN
  IF cache_exi(t.cache, key)
  THEN LET e == cache_get(t.cache, key) IN
       IF e.tag = "Ns" THEN R(t, "Ok", e.v) ELSE R(t, "unreachable", <<>>)
  ELSE LET g == get(t, key) IN
       IF g.err # "Ok" THEN R(g.t, g.err, <<>>)
       ELSE IF g.val = <<>> THEN R(g.t, "NsNotFound", <<>>)
       ELSE LET val == ns_into(g.val[1]) IN
            R([g.t EXCEPT !.cache = cache_set(@, key, [tag |-> "Ns", v |-> val])],
              "Ok", val)

get_and_cache_db(t, ns, db) ==
  LET key == db_new(ns, db) IN
  IF cache_exi(t.cache, key)
  THEN LET e == cache_get(t.cache, key) IN
       IF e.tag = "Db" THEN R(t, "Ok", e.v) ELSE R(t, "unreachable", <<>>)
  ELSE LET g == get(t, key) IN
       IF g.err # "Ok" THEN R(g.t, g.err, <<>>)
       ELSE IF g.val = <<>> THEN R(g.t, "DbNotFound", <<>>)
       ELSE LET val == db_into(g.val[1]) IN
            R([g.t EXCEPT !.cache = cache_set(@, key, [tag |-> "Db", v |-> val])],
              "Ok", val)

\* get_and_cache_tb reading the store at every call, the cache entry replaced
get_and_cache_tb_fresh(t, ns, db, tb) ==
  LET key == tb_new(ns, db, tb)
      g == get(t, key)
  IN  IF g.err # "Ok" THEN R(g.t, g.err, <<>>)
      ELSE IF g.val = <<>> THEN R(g.t, "TbNotFound", <<>>)
      ELSE LET val == tb_into(g.val[1]) IN
           R([g.t EXCEPT !.cache = cache_set(@, key, [tag |-> "Tb", v |-> val])],
             "Ok", val)

get_and_cache_tb(t, ns, db, tb) ==
  LET key == tb_new(ns, db, tb) IN
  IF cache_exi(t.cache, key)
  THEN LET e == cache_get(t.cache, key) IN
       IF e.tag = "Tb" THEN R(t, "Ok", e.v) ELSE R(t, "unreachable", <<>>)
  ELSE LET g == get(t, key) IN
       IF g.err # "Ok" THEN R(g.t, g.err, <<>>)
       ELSE IF g.val = <<>> THEN R(g.t, "TbNotFound", <<>>)
       ELSE LET val == tb_into(g.val[1]) IN
            R([g.t EXCEPT !.cache = cache_set(@, key, [tag |-> "Tb", v |-> val])],
              "Ok", val)

(***************************************************************************)
(* Transaction: the ensure-or-create helpers and the check helper.         *)
(***************************************************************************)
\* add_ns writing without reading first
add_ns_blind(t, ns, strict) ==
  LET val == Namespace(ns)
      p == put(t, ns_new(ns), ns_val(val))
  IN  IF p.err # "Ok" THEN R(p.t, p.err, <<>>) ELSE R(p.t, "Ok", val)

\* the match creating the namespace with an unconditional write
add_ns_match_set(g, ns, strict) ==
  IF g.err = "NsNotFound"
  THEN IF ~strict
       THEN LET val == Namespace(ns)
                p == set(g.t, ns_new(ns), ns_val(val))
            IN  IF p.err # "Ok" THEN R(p.t, p.err, <<>>) ELSE R(p.t, "Ok", val)
       ELSE R(g.t, "NsNotFound", <<>>)
  ELSE g

\* the match on what get_ns returned, g.t the transaction as it is then
add_ns_match(g, ns, strict) ==
  IF g.err = "NsNotFound"
  THEN IF ~strict
       THEN LET val == Namespace(ns)
                p == put(g.t, ns_new(ns), ns_val(val))
            IN  IF p.err # "Ok" THEN R(p.t, p.err, <<>>) ELSE R(p.t, "Ok", val)
       ELSE R(g.t, "NsNotFound", <<>>)
  ELSE g

add_ns(t, ns, strict) == add_ns_match(get_ns(t, ns), ns, strict)

add_db(t, ns, db, strict) ==
  LET g == get_db(t, ns, db) IN
  IF g.err = "DbNotFound"
  THEN IF ~strict
       THEN LET val == Database(db)
                p == put(g.t, db_new(ns, db), db_val(val))
            IN  IF p.err # "Ok" THEN R(p.t, p.err, <<>>) ELSE R(p.t, "Ok", val)
       ELSE R(g.t, "DbNotFound", <<>>)
  ELSE g

\* add_tb returning the entity whatever the put returned
add_tb_unchecked(t, ns, db, tb, strict) ==
  LET g == get_tb(t, ns, db, tb) IN
  IF g.err = "TbNotFound"
  THEN IF ~strict
       THEN LET val == Table(tb, "none")
                p == put(g.t, tb_new(ns, db, tb), tb_val(val))
            IN  R(p.t, "Ok", val)
       ELSE R(g.t, "TbNotFound", <<>>)
  ELSE g

add_tb(t, ns, db, tb, strict) ==
  LET g == get_tb(t, ns, db, tb) IN
  IF g.err = "TbNotFound"
  THEN IF ~strict
       THEN LET val == Table(tb, "none")
                p == put(g.t, tb_new(ns, db, tb), tb_val(val))
            IN  IF p.err # "Ok" THEN R(p.t, p.err, <<>>) ELSE R(p.t, "Ok", val)
       ELSE R(g.t, "TbNotFound", <<>>)
  ELSE g

\* add_and_cache_ns leaving the namespace it creates in the cache
add_and_cache_ns_caching(t, ns, strict) ==
  LET g == get_and_cache_ns(t, ns) IN
  IF g.err = "NsNotFound"
  THEN IF ~strict
       THEN LET val == Namespace(ns)
                p == put(g.t, ns_new(ns), ns_val(val))
            IN  IF p.err # "Ok" THEN R(p.t, p.err, <<>>)
                ELSE R([p.t EXCEPT !.cache = cache_set(@, ns_new(ns), [tag |-> "Ns", v |-> val])],
                       "Ok", val)
       ELSE R(g.t, "NsNotFound", <<>>)
  ELSE g

add_and_cache_ns(t, ns, strict) ==
  LET g == get_and_cache_ns(t, ns) IN
  IF g.err = "NsNotFound"
  THEN IF ~strict
       THEN LET val == Namespace(ns)
                p == put(g.t, ns_new(ns), ns_val(val))
            IN  IF p.err # "Ok" THEN R(p.t, p.err, <<>>) ELSE R(p.t, "Ok", val)
       ELSE R(g.t, "NsNotFound", <<>>)
  ELSE g

\* add_and_cache_db creating the database in strict mode as well
add_and_cache_db_lax(t, ns, db, strict) ==
  LET g == get_and_cache_db(t, ns, db) IN
  IF g.err = "DbNotFound"
  THEN LET val == Database(db)
           p == put(g.t, db_new(ns, db), db_val(val))
       IN  IF p.err # "Ok" THEN R(p.t, p.err, <<>>) ELSE R(p.t, "Ok", val)
  ELSE g

add_and_cache_db(t, ns, db, strict) ==
  LET g == get_and_cache_db(t, ns, db) IN
  IF g.err = "DbNotFound"
  THEN IF ~strict
       THEN LET val == Database(db)
                p == put(g.t, db_new(ns, db), db_val(val))
            IN  IF p.err # "Ok" THEN R(p.t, p.err, <<>>) ELSE R(p.t, "Ok", val)
       ELSE R(g.t, "DbNotFound", <<>>)
  ELSE g

add_and_cache_tb(t, ns, db, tb, strict) ==
  LET g == get_and_cache_tb(t, ns, db, tb) IN
  IF g.err = "TbNotFound"
  THEN IF ~strict
       THEN LET val == Table(tb, "none")
                p == put(g.t, tb_new(ns, db, tb), tb_val(val))
            IN  IF p.err # "Ok" THEN R(p.t, p.err, <<>>) ELSE R(p.t, "Ok", val)
       ELSE R(g.t, "TbNotFound", <<>>)
  ELSE g

\* check_ns_db_tb looking the table up first and the namespace last
check_ns_db_tb_reversed(t, ns, db, tb, strict) ==
  IF ~strict THEN R(t, "Ok", <<>>)
  ELSE LET a == get_and_cache_tb(t, ns, db, tb) IN
       IF a.err # "Ok" THEN R(a.t, a.err, <<>>)
       ELSE LET b == get_and_cache_db(a.t, ns, db) IN
            IF b.err # "Ok" THEN R(b.t, b.err, <<>>)
            ELSE LET c == get_and_cache_ns(b.t, ns) IN
                 IF c.err # "Ok" THEN R(c.t, c.err, <<>>)
                 ELSE R(c.t, "Ok", <<>>)

check_ns_db_tb(t, ns, db, tb, strict) ==
  IF ~strict THEN R(t, "Ok", <<>>)
  ELSE LET a == get_and_cache_ns(t, ns) IN
       IF a.err # "Ok" THEN R(a.t, a.err, <<>>)
       ELSE LET b == get_and_cache_db(a.t, ns, db) IN
            IF b.err # "Ok" THEN R(b.t, b.err, <<>>)
            ELSE LET c == get_and_cache_tb(b.t, ns, db, tb) IN
                 IF c.err # "Ok" THEN R(c.t, c.err, <<>>)
                 ELSE R(c.t, "Ok", <<>>)

(***************************************************************************)
(* The catalog state machine: one transaction over a store that holds any  *)
(* of a namespace, a database in it and a table in that, its cache empty   *)
(* at the start.  The owner writes and deletes catalog keys directly and   *)
(* calls the accessors and helpers; tx carries the cache as well.          *)
(***************************************************************************)
\* the catalog entries <<key, stored entity>>, ascending by key
CatEntries ==
  << <<db_new(97, 98), db_val(Database(98))>>,
     <<ns_new(97), ns_val(Namespace(97))>>,
     <<tb_new(97, 98, 99), tb_val(Table(99, "none"))>> >>

\* what the owner writes: the entries, and the table with other permissions
CatWrites == Append(CatEntries, <<tb_new(97, 98, 99), tb_val(Table(99, "full"))>>)

\* the value a conditional write or delete expects (an Option<Val>): none,
\* or the table as it is first stored
CatChecks == {<<>>, <<tb_val(Table(99, "none"))>>}

CatStores ==
  {SelectSeq(CatEntries, LAMBDA e : e[1] \in S) :
     S \in SUBSET {CatEntries[i][1] : i \in 1..Len(CatEntries)}}

\* check_ns_db_tb makes up to three backend calls
CheckFaults == Faults \cup {2}

\* the handle as an operation finds it, the next backend failure at f
CatCall(f) ==
  [closed |-> tx.closed, rw |-> tx.rw, kv |-> tx.kv, cache |-> tx.cache,
   io |-> f, cf |-> FALSE, log |-> <<>>]

\* the handle an operation leaves
CatHandle(t) ==
  [closed |-> t.closed, rw |-> t.rw, kv |-> t.kv, cache |-> t.cache]

CatInit ==
  /\ tx \in [closed : {FALSE}, rw : BOOLEAN, kv : CatStores, cache : {cache_new}]
  /\ ret = Idle

CatSet ==
  \E i \in 1..Len(CatWrites), f \in CallFaults :
    LET r == set(CatCall(f), CatWrites[i][1], CatWrites[i][2]) IN
    /\ ret.op = "none"
    /\ tx' = CatHandle(r.t)
    /\ ret' = Outcome("set", <<CatWrites[i][1], CatWrites[i][2]>>, f, FALSE, r)

CatPut ==
  \E i \in 1..Len(CatWrites), f \in CallFaults :
    LET r == put(CatCall(f), CatWrites[i][1], CatWrites[i][2]) IN
    /\ ret.op = "none"
    /\ tx' = CatHandle(r.t)
    /\ ret' = Outcome("put", <<CatWrites[i][1], CatWrites[i][2]>>, f, FALSE, r)

CatPutc ==
  \E i \in 1..Len(CatWrites), chk \in CatChecks, f \in CallFaults :
    LET r == putc(CatCall(f), CatWrites[i][1], CatWrites[i][2], chk) IN
    /\ ret.op = "none"
    /\ tx' = CatHandle(r.t)
    /\ ret' = Outcome("putc", <<CatWrites[i][1], CatWrites[i][2], chk>>, f, FALSE, r)

CatDelc ==
  \E i \in 1..Len(CatEntries), chk \in CatChecks, f \in CallFaults :
    LET r == delc(CatCall(f), CatEntries[i][1], chk) IN
    /\ ret.op = "none"
    /\ tx' = CatHandle(r.t)
    /\ ret' = Outcome("delc", <<CatEntries[i][1], chk>>, f, FALSE, r)

CatDel ==
  \E i \in 1..Len(CatEntries), f \in CallFaults :
    LET r == del(CatCall(f), CatEntries[i][1]) IN
    /\ ret.op = "none"
    /\ tx' = CatHandle(r.t)
    /\ ret' = Outcome("del", <<CatEntries[i][1]>>, f, FALSE, r)

CatCancel ==
  \E f \in CallFaults :
    LET r == cancel(CatCall(f)) IN
    /\ ret.op = "none"
    /\ tx' = CatHandle(r.t)
    /\ ret' = Outcome("cancel", <<>>, f, FALSE, r)

CatCommit ==
  \E f \in CallFaults :
    LET r == commit(CatCall(f)) IN
    /\ ret.op = "none"
    /\ tx' = CatHandle(r.t)
    /\ ret' = Outcome("commit", <<>>, f, FALSE, r)

AllNs ==
  \E f \in Faults :
    LET r == all_ns(CatCall(f)) IN
    /\ ret.op = "none"
    /\ tx' = CatHandle(r.t)
    /\ ret' = Outcome("all_ns", <<>>, f, FALSE, r)

AllTb ==
  \E f \in Faults :
    LET r == all_tb(CatCall(f), 97, 98) IN
    /\ ret.op = "none"
    /\ tx' = CatHandle(r.t)
    /\ ret' = Outcome("all_tb", <<97, 98>>, f, FALSE, r)

GetNs ==
  \E f \in CallFaults :
    LET r == get_ns(CatCall(f), 97) IN
    /\ ret.op = "none"
    /\ tx' = CatHandle(r.t)
    /\ ret' = Outcome("get_ns", <<97>>, f, FALSE, r)

GetDb ==
  \E f \in CallFaults :
    LET r == get_db(CatCall(f), 97, 98) IN
    /\ ret.op = "none"
    /\ tx' = CatHandle(r.t)
    /\ ret' = Outcome("get_db", <<97, 98>>, f, FALSE, r)

GetTb ==
  \E f \in CallFaults :
    LET r == get_tb(CatCall(f), 97, 98, 99) IN
    /\ ret.op = "none"
    /\ tx' = CatHandle(r.t)
    /\ ret' = Outcome("get_tb", <<97, 98, 99>>, f, FALSE, r)

GetAndCacheNs ==
  \E f \in CallFaults :
    LET r == get_and_cache_ns(CatCall(f), 97) IN
    /\ ret.op = "none"
    /\ tx' = CatHandle(r.t)
    /\ ret' = Outcome("get_and_cache_ns", <<97>>, f, FALSE, r)

GetAndCacheDb ==
  \E f \in CallFaults :
    LET r == get_and_cache_db(CatCall(f), 97, 98) IN
    /\ ret.op = "none"
    /\ tx' = CatHandle(r.t)
    /\ ret' = Outcome("get_and_cache_db", <<97, 98>>, f, FALSE, r)

GetAndCacheTb ==
  \E f \in CallFaults :
    LET r == get_and_cache_tb(CatCall(f), 97, 98, 99) IN
    /\ ret.op = "none"
    /\ tx' = CatHandle(r.t)
    /\ ret' = Outcome("get_and_cache_tb", <<97, 98, 99>>, f, FALSE, r)

AddNs ==
  \E strict \in BOOLEAN, f \in Faults :
    LET r == add_ns(CatCall(f), 97, strict) IN
    /\ ret.op = "none"
    /\ tx' = CatHandle(r.t)
    /\ ret' = Outcome("add_ns", <<97, strict>>, f, FALSE, r)

AddDb ==
  \E strict \in BOOLEAN, f \in Faults :
    LET r == add_db(CatCall(f), 97, 98, strict) IN
    /\ ret.op = "none"
    /\ tx' = CatHandle(r.t)
    /\ ret' = Outcome("add_db", <<97, 98, strict>>, f, FALSE, r)

AddTb ==
  \E strict \in BOOLEAN, f \in Faults :
    LET r == add_tb(CatCall(f), 97, 98, 99, strict) IN
    /\ ret.op = "none"
    /\ tx' = CatHandle(r.t)
    /\ ret' = Outcome("add_tb", <<97, 98, 99, strict>>, f, FALSE, r)

AddAndCacheNs ==
  \E strict \in BOOLEAN, f \in Faults :
    LET r == add_and_cache_ns(CatCall(f), 97, strict) IN
    /\ ret.op = "none"
    /\ tx' = CatHandle(r.t)
    /\ ret' = Outcome("add_and_cache_ns", <<97, strict>>, f, FALSE, r)

AddAndCacheDb ==
  \E strict \in BOOLEAN, f \in Faults :
    LET r == add_and_cache_db(CatCall(f), 97, 98, strict) IN
    /\ ret.op = "none"
    /\ tx' = CatHandle(r.t)
    /\ ret' = Outcome("add_and_cache_db", <<97, 98, strict>>, f, FALSE, r)

AddAndCacheTb ==
  \E strict \in BOOLEAN, f \in Faults :
    LET r == add_and_cache_tb(CatCall(f), 97, 98, 99, strict) IN
    /\ ret.op = "none"
    /\ tx' = CatHandle(r.t)
    /\ ret' = Outcome("add_and_cache_tb", <<97, 98, 99, strict>>, f, FALSE, r)

CheckNsDbTb ==
  \E strict \in BOOLEAN, f \in CheckFaults :
    LET r == check_ns_db_tb(CatCall(f), 97, 98, 99, strict) IN
    /\ ret.op = "none"
    /\ tx' = CatHandle(r.t)
    /\ ret' = Outcome("check_ns_db_tb", <<97, 98, 99, strict>>, f, FALSE, r)

CatNext ==
  \/ CatSet \/ CatPut \/ CatPutc \/ CatDel \/ CatDelc \/ CatCancel \/ CatCommit
  \/ AllNs \/ AllTb
  \/ GetNs \/ GetDb \/ GetTb
  \/ GetAndCacheNs \/ GetAndCacheDb \/ GetAndCacheTb
  \/ AddNs \/ AddDb \/ AddTb
  \/ AddAndCacheNs \/ AddAndCacheDb \/ AddAndCacheTb
  \/ CheckNsDbTb
  \/ Return

SpecCat == CatInit /\ [][CatNext]_vars

(***************************************************************************)
(* Two transactions on one datastore, each running add_ns(ns, false) and   *)
(* then commit, their backend calls interleaved.  The datastore, by its    *)
(* contract: a transaction reads its own view; the views are snapshots     *)
(* taken at the start, or (iso = "committed") take in what others commit;  *)
(* an insert made by put is checked against the view at the put and        *)
(* against the datastore at commit, where it fails with TxConflict if      *)
(* another transaction has committed the key since; a write made by set is *)
(* not checked.  tx holds the datastore and the two handles: of handle i,  *)
(*   got   what get_ns returned, or <<>> before                            *)
(*   perr  what the match (and its put) returned, "" before                *)
(*   cerr  what commit returned, "" before                                 *)
(*   ins   the keys it inserted with put;  wr  the keys it wrote           *)
(***************************************************************************)
RaceTxs == 1..2

\* transaction i as a backend call finds it
RaceCall(i, f, c) ==
  [closed |-> tx.h[i].closed, rw |-> tx.h[i].rw, kv |-> tx.h[i].kv,
   io |-> f, cf |-> c, log |-> <<>>]

\* the keys of the successful calls of log that are an op in ops
Written(log, err, ops) ==
  IF err # "Ok" THEN {} ELSE {log[n].a[1] : n \in {m \in 1..Len(log) : log[m].op \in ops}}

\* the datastore after the transaction with view kv has committed its keys wr
Applied(store, kv, wr) ==
  IF wr = {} THEN store
  ELSE LET k == CHOOSE x \in wr : TRUE IN Insert(store, k, Lookup(kv, k)[1])

\* the datastore finds a conflict when transaction i commits
Conflict(i) == \E k \in tx.h[i].ins : Has(tx.store, k)

RaceInit ==
  /\ \E iso \in {"snapshot", "committed"}, rws \in [RaceTxs -> BOOLEAN],
        store \in {<<>>, << CatEntries[2] >>} :
       tx = [iso |-> iso, store |-> store,
             h |-> [i \in RaceTxs |->
                      [closed |-> FALSE, rw |-> rws[i], kv |-> store, got |-> <<>>,
                       perr |-> "", cerr |-> "", ins |-> {}, wr |-> {}]]]
  /\ ret = Idle

RaceGet ==
  \E i \in RaceTxs, f \in CallFaults :
    LET r == get_ns(RaceCall(i, f, FALSE), 97) IN
    /\ tx.h[i].got = <<>>
    /\ tx' = [tx EXCEPT !.h[i].got = <<[err |-> r.err, val |-> r.val]>>]
    /\ ret' = Outcome("get_ns", <<i>>, f, FALSE, r)

RaceMatch ==
  \E i \in RaceTxs, f \in CallFaults :
    LET g == tx.h[i].got[1]
        r == add_ns_match(R(RaceCall(i, f, FALSE), g.err, g.val), 97, FALSE)
    IN  /\ tx.h[i].got # <<>>
        /\ tx.h[i].perr = ""
        /\ ~tx.h[i].closed
        /\ tx' = [tx EXCEPT !.h[i].kv = r.t.kv,
                             !.h[i].perr = r.err,
                             !.h[i].ins = Written(r.t.log, r.err, {"put"}),
                             !.h[i].wr = Written(r.t.log, r.err, {"put", "set"})]
        /\ ret' = Outcome("add_ns", <<i>>, f, FALSE, r)

RaceCommit ==
  \E i \in RaceTxs, f \in CallFaults :
    LET r == commit(RaceCall(i, f, Conflict(i)))
        store == IF r.err = "Ok" THEN Applied(tx.store, tx.h[i].kv, tx.h[i].wr)
                 ELSE tx.store
    IN  /\ tx.h[i].perr # ""
        /\ tx.h[i].cerr = ""
        /\ tx' = [tx EXCEPT
                   !.store = store,
                   !.h = [j \in RaceTxs |->
                            IF j = i
                            THEN [@[j] EXCEPT !.closed = r.t.closed, !.cerr = r.err]
                            ELSE IF tx.iso = "committed" /\ r.err = "Ok" /\ ~@[j].closed
                            THEN [@[j] EXCEPT !.kv = Applied(@, store, tx.h[i].wr \ tx.h[j].wr)]
                            ELSE @[j]]]
        /\ ret' = Outcome("commit", <<i>>, f, Conflict(i), r)

RaceNext == RaceGet \/ RaceMatch \/ RaceCommit

SpecRace == RaceInit /\ [][RaceNext]_vars

(***************************************************************************)
(* The catalog kinds the exporter lists, and the rows: encoders and codecs *)
(* by their contract, as above.                                            *)
(***************************************************************************)
dl_prefix(ns, db) == <<108, ns, db, 0>>

dl_suffix(ns, db) == <<108, ns, db, 255>>

dt_prefix(ns, db) == <<107, ns, db, 0>>

dt_suffix(ns, db) == <<107, ns, db, 255>>

sc_prefix(ns, db) == <<115, ns, db, 0>>

sc_suffix(ns, db) == <<115, ns, db, 255>>

fd_prefix(ns, db, tb) == <<102, ns, db, tb, 0>>

fd_suffix(ns, db, tb) == <<102, ns, db, tb, 255>>

ix_prefix(ns, db, tb) == <<105, ns, db, tb, 0>>

ix_suffix(ns, db, tb) == <<105, ns, db, tb, 255>>

ev_prefix(ns, db, tb) == <<101, ns, db, tb, 0>>

ev_suffix(ns, db, tb) == <<101, ns, db, tb, 255>>

thing_prefix(ns, db, tb) == <<120, ns, db, tb, 0>>

thing_suffix(ns, db, tb) == <<120, ns, db, tb, 255>>

\* key::thing::Thing { tb, id } read from a row key
thing_into(k) == [tb |-> k[4], id |-> SubSeq(k, 5, Len(k))]

\* a Define..Statement of a login, token, scope, field, index or event, read
\* from its stored form: its name and what it is defined on
stmt_into(v) == [name |-> v[2], what |-> v[3]]

stmt_convert(val) == [i \in 1..Len(val) |-> stmt_into(val[i][2])]

(***************************************************************************)
(* Transaction: the list accessors the exporter calls.                     *)
(***************************************************************************)
all_dl(t, ns, db) ==
  LET key == dl_prefix(ns, db) IN
  IF cache_exi(t.cache, key)
  THEN LET e == cache_get(t.cache, key) IN
       IF e.tag = "Dls" THEN R(t, "Ok", e.v) ELSE R(t, "unreachable", <<>>)
  ELSE LET g == getr(t, dl_prefix(ns, db), dl_suffix(ns, db), u32_MAX) IN
       IF g.err # "Ok" THEN R(g.t, g.err, <<>>)
       ELSE LET val == stmt_convert(g.val) IN
            R([g.t EXCEPT !.cache = cache_set(@, key, [tag |-> "Dls", v |-> val])],
              "Ok", val)

all_dt(t, ns, db) ==
  LET key == dt_prefix(ns, db) IN
  IF cache_exi(t.cache, key)
  THEN LET e == cache_get(t.cache, key) IN
       IF e.tag = "Dts" THEN R(t, "Ok", e.v) ELSE R(t, "unreachable", <<>>)
  ELSE LET g == getr(t, dt_prefix(ns, db), dt_suffix(ns, db), u32_MAX) IN
       IF g.err # "Ok" THEN R(g.t, g.err, <<>>)
       ELSE LET val == stmt_convert(g.val) IN
            R([g.t EXCEPT !.cache = cache_set(@, key, [tag |-> "Dts", v |-> val])],
              "Ok", val)

all_sc(t, ns, db) ==
  LET key == sc_prefix(ns, db) IN
  IF cache_exi(t.cache, key)
  THEN LET e == cache_get(t.cache, key) IN
       IF e.tag = "Scs" THEN R(t, "Ok", e.v) ELSE R(t, "unreachable", <<>>)
  ELSE LET g == getr(t, sc_prefix(ns, db), sc_suffix(ns, db), u32_MAX) IN
       IF g.err # "Ok" THEN R(g.t, g.err, <<>>)
       ELSE LET val == stmt_convert(g.val) IN
            R([g.t EXCEPT !.cache = cache_set(@, key, [tag |-> "Scs", v |-> val])],
              "Ok", val)

all_ev(t, ns, db, tb) ==
  LET key == ev_prefix(ns, db, tb) IN
  IF cache_exi(t.cache, key)
  THEN LET e == cache_get(t.cache, key) IN
       IF e.tag = "Evs" THEN R(t, "Ok", e.v) ELSE R(t, "unreachable", <<>>)
  ELSE LET g == getr(t, ev_prefix(ns, db, tb), ev_suffix(ns, db, tb), u32_MAX) IN
       IF g.err # "Ok" THEN R(g.t, g.err, <<>>)
       ELSE LET val == stmt_convert(g.val) IN
            R([g.t EXCEPT !.cache = cache_set(@, key, [tag |-> "Evs", v |-> val])],
              "Ok", val)

all_fd(t, ns, db, tb) ==
  LET key == fd_prefix(ns, db, tb) IN
  IF cache_exi(t.cache, key)
  THEN LET e == cache_get(t.cache, key) IN
       IF e.tag = "Fds" THEN R(t, "Ok", e.v) ELSE R(t, "unreachable", <<>>)
  ELSE LET g == getr(t, fd_prefix(ns, db, tb), fd_suffix(ns, db, tb), u32_MAX) IN
       IF g.err # "Ok" THEN R(g.t, g.err, <<>>)
       ELSE LET val == stmt_convert(g.val) IN
            R([g.t EXCEPT !.cache = cache_set(@, key, [tag |-> "Fds", v |-> val])],
              "Ok", val)

all_ix(t, ns, db, tb) ==
  LET key == ix_prefix(ns, db, tb) IN
  IF cache_exi(t.cache, key)
  THEN LET e == cache_get(t.cache, key) IN
       IF e.tag = "Ixs" THEN R(t, "Ok", e.v) ELSE R(t, "unreachable", <<>>)
  ELSE LET g == getr(t, ix_prefix(ns, db, tb), ix_suffix(ns, db, tb), u32_MAX) IN
       IF g.err # "Ok" THEN R(g.t, g.err, <<>>)
       ELSE LET val == stmt_convert(g.val) IN
            R([g.t EXCEPT !.cache = cache_set(@, key, [tag |-> "Ixs", v |-> val])],
              "Ok", val)

(***************************************************************************)
(* Transaction::export.  The machine record gains                          *)
(*   chn     the environment: the number of messages the receiver takes    *)
(*           before it is dropped (NoFault: it is never dropped)           *)
(* and the messages the channel has taken are written to the log, in one   *)
(* order with the backend calls.  A message is a line of the script: its   *)
(* fixed text, and for a formatted line the name, the table and the value  *)
(* that are formatted into it.                                             *)
(***************************************************************************)
\* one statement after another: F of the value of x, x computed once
AndThen(x, F(_)) == CHOOSE y \in {F(v) : v \in {x}} : TRUE

Line(text) == [text |-> text, a |-> 0, b |-> <<>>, c |-> <<>>]

\* format!("-- TABLE: {}", tb.name) and format!("-- TABLE DATA: {}", tb.name)
Titled(text, name) == [text |-> text, a |-> name, b |-> <<>>, c |-> <<>>]

\* format!("{};", e) of a table
TableStmt(e) == [text |-> "DEFINE TABLE", a |-> e.name, b |-> <<>>, c |-> <<>>]

\* format!("{};", e) of every statement of a list, in the list's order
Stmts(text, es) ==
  [i \in 1..Len(es) |-> [text |-> text, a |-> es[i].name, b |-> <<es[i].what>>, c |-> <<>>]]

\* sql::value::Value read from a stored row
value_into(v) == Tail(v)

\* format!("UPDATE {} CONTENT {};", Thing::from((k.tb, k.id)), v)
Update(k, v) == [text |-> "UPDATE", a |-> k.tb, b |-> k.id, c |-> v]

\* a send whose failure is dropped
send_lossy(x, msg) ==
  IF x.err # "Ok" THEN x
  ELSE IF x.t.chn = 0 THEN x
  ELSE R([Logged(x.t, "send", <<msg>>) EXCEPT !.chn = IF @ > 0 THEN @ - 1 ELSE @],
         "Ok", <<>>)

\* chn.send(..).await? after a step that left x: nothing once x is an error;
\* the send error once the receiver is dropped
send(x, msg) ==
  IF x.err # "Ok" THEN x
  ELSE IF x.t.chn = 0 THEN R(x.t, "ChannelSend", <<>>)
  ELSE R([Logged(x.t, "send", <<msg>>) EXCEPT !.chn = IF @ > 0 THEN @ - 1 ELSE @],
         "Ok", <<>>)

RECURSIVE send_each(_, _)
\* consecutive sends
send_each(x, msgs) ==
  IF Len(msgs) = 0 THEN x
  ELSE AndThen(send(x, Head(msgs)), LAMBDA y : send_each(y, Tail(msgs)))

\* the three comment lines and the empty line that open a section
banner(x, title) ==
  send_each(x, << Line("-- ------------------------------"), title,
                  Line("-- ------------------------------"), Line("") >>)

\* a section of the database: its list read, and if it has entries its
\* banner, its statements and an empty line
export_section(r, title, text) ==
  IF r.err # "Ok" THEN R(r.t, r.err, <<>>)
  ELSE IF Len(r.val) = 0 THEN R(r.t, "Ok", <<>>)
  ELSE AndThen(banner(R(r.t, "Ok", <<>>), Line(title)),
         LAMBDA x1 : AndThen(send_each(x1, Stmts(text, r.val)),
           LAMBDA x2 : send(x2, Line(""))))

\* the statements of a table: its list read, and if it has entries its
\* statements and an empty line
export_stmts(r, text) ==
  IF r.err # "Ok" THEN R(r.t, r.err, <<>>)
  ELSE IF Len(r.val) = 0 THEN R(r.t, "Ok", <<>>)
  ELSE AndThen(send_each(R(r.t, "Ok", <<>>), Stmts(text, r.val)),
         LAMBDA x1 : send(x1, Line("")))

\* Output OPTIONS
export_options(x) ==
  AndThen(banner(x, Line("-- OPTION")),
    LAMBDA x1 : send_each(x1, << Line("OPTION IMPORT;"), Line("") >>))

\* Output LOGINS
export_logins(x, ns, db) ==
  IF x.err # "Ok" THEN x
  ELSE AndThen(all_dl(x.t, ns, db),
         LAMBDA r : export_section(r, "-- LOGINS", "DEFINE LOGIN"))

\* Output TOKENS
export_tokens(x, ns, db) ==
  IF x.err # "Ok" THEN x
  ELSE AndThen(all_dt(x.t, ns, db),
         LAMBDA r : export_section(r, "-- TOKENS", "DEFINE TOKEN"))

\* Output SCOPES
export_scopes(x, ns, db) ==
  IF x.err # "Ok" THEN x
  ELSE AndThen(all_sc(x.t, ns, db),
         LAMBDA r : export_section(r, "-- SCOPES", "DEFINE SCOPE"))

\* Output FIELDS
export_fields(x, ns, db, tb) ==
  IF x.err # "Ok" THEN x
  ELSE AndThen(all_fd(x.t, ns, db, tb), LAMBDA r : export_stmts(r, "DEFINE FIELD"))

\* Output INDEXES
export_indexes(x, ns, db, tb) ==
  IF x.err # "Ok" THEN x
  ELSE AndThen(all_ix(x.t, ns, db, tb), LAMBDA r : export_stmts(r, "DEFINE INDEX"))

\* Output EVENTS
export_events(x, ns, db, tb) ==
  IF x.err # "Ok" THEN x
  ELSE AndThen(all_ev(x.t, ns, db, tb), LAMBDA r : export_stmts(r, "DEFINE EVENT"))

\* Output TABLE: one turn of the first loop over the tables
export_table(x, ns, db, tb) ==
  AndThen(banner(x, Titled("-- TABLE:", tb.name)),
    LAMBDA x1 : AndThen(send_each(x1, << TableStmt(tb), Line("") >>),
      LAMBDA x2 : AndThen(export_fields(x2, ns, db, tb.name),
        LAMBDA x3 : AndThen(export_indexes(x3, ns, db, tb.name),
          LAMBDA x4 : export_events(x4, ns, db, tb.name)))))

RECURSIVE export_defs(_, _, _, _, _)
\* the first loop over the tables, from table i on
export_defs(x, ns, db, tbs, i) ==
  IF i > Len(tbs) THEN x
  ELSE AndThen(export_table(x, ns, db, tbs[i]),
         LAMBDA x1 : export_defs(x1, ns, db, tbs, i + 1))

\* the start of the window that follows the row nxt (an Option<Vec<u8>>)
export_min(beg, nxt) == IF nxt = <<>> THEN beg ELSE push(nxt[1], 0)

\* one turn of the loop over the window: row i of the n rows of res
export_body(s, res, i) ==
  AndThen(send(R(s.t, s.err, <<>>),
               Update(thing_into(res[i][1]), value_into(res[i][2]))),
    LAMBDA x : [t |-> x.t, err |-> x.err,
                nxt |-> IF Len(res) = i THEN <<res[i][1]>> ELSE s.nxt])

RECURSIVE export_for(_, _, _, _)
\* the loop over rows lo .. hi of the window, in order
export_for(s, res, lo, hi) ==
  IF lo = hi THEN export_body(s, res, lo)
  ELSE AndThen(export_for(s, res, lo, (lo + hi) \div 2),
         LAMBDA s1 : IF s1.err # "Ok" THEN s1
                     ELSE export_for(s1, res, (lo + hi) \div 2 + 1, hi))

RECURSIVE export_loop(_, _, _)
\* one turn of the row loop that leaves on a window shorter than 1000 rows,
\* once it is sent
export_turn_short(s, r, beg, end) ==
  IF r.err # "Ok" THEN [t |-> r.t, err |-> r.err, nxt |-> s.nxt]
  ELSE IF Len(r.val) # 0
  THEN AndThen(export_for([t |-> r.t, err |-> "Ok", nxt |-> s.nxt],
                          r.val, 1, Len(r.val)),
         LAMBDA s1 : IF Len(r.val) < 1000 THEN s1 ELSE export_loop(s1, beg, end))
  ELSE [t |-> r.t, err |-> "Ok", nxt |-> s.nxt]

\* one turn of the row loop, the window r scanned: send its rows and
\* continue, or leave on an empty window
export_turn(s, r, beg, end) ==
  IF r.err # "Ok" THEN [t |-> r.t, err |-> r.err, nxt |-> s.nxt]
  ELSE IF Len(r.val) # 0
  THEN AndThen(export_for([t |-> r.t, err |-> "Ok", nxt |-> s.nxt],
                          r.val, 1, Len(r.val)),
         LAMBDA s1 : export_loop(s1, beg, end))
  ELSE [t |-> r.t, err |-> "Ok", nxt |-> s.nxt]

\* the row loop
export_loop(s, beg, end) ==
  IF s.err # "Ok" THEN s
  ELSE AndThen(scan(s.t, export_min(beg, s.nxt), end, u32_of(1000)),
         LAMBDA r : export_turn(s, r, beg, end))

\* Output TABLE data: one turn of the second loop over the tables
export_data(x, ns, db, tb) ==
  AndThen(banner(x, Titled("-- TABLE DATA:", tb.name)),
    LAMBDA x1 :
      AndThen(export_loop([t |-> x1.t, err |-> x1.err, nxt |-> <<>>],
                          thing_prefix(ns, db, tb.name),
                          thing_suffix(ns, db, tb.name)),
        LAMBDA s : send(R(s.t, s.err, <<>>), Line(""))))

RECURSIVE export_datas(_, _, _, _, _)
\* the second loop over the tables, from table i on
export_datas(x, ns, db, tbs, i) ==
  IF i > Len(tbs) THEN x
  ELSE AndThen(export_data(x, ns, db, tbs[i]),
         LAMBDA x1 : export_datas(x1, ns, db, tbs, i + 1))

\* the tables written without the test that there is one
export_tables_unguarded(r, ns, db) ==
  IF r.err # "Ok" THEN R(r.t, r.err, <<>>)
  ELSE AndThen(export_defs(R(r.t, "Ok", <<>>), ns, db, r.val, 1),
         LAMBDA x1 : AndThen(banner(x1, Line("-- TRANSACTION")),
           LAMBDA x2 : AndThen(send_each(x2, << Line("BEGIN TRANSACTION;"), Line("") >>),
             LAMBDA x3 : AndThen(export_datas(x3, ns, db, r.val, 1),
               LAMBDA x4 : AndThen(banner(x4, Line("-- TRANSACTION")),
                 LAMBDA x5 : send_each(x5, << Line("COMMIT TRANSACTION;"), Line("") >>))))))

\* Output TABLES, the list of tables r read
export_tables(r, ns, db) ==
  IF r.err # "Ok" THEN R(r.t, r.err, <<>>)
  ELSE IF Len(r.val) = 0 THEN R(r.t, "Ok", <<>>)
  ELSE AndThen(export_defs(R(r.t, "Ok", <<>>), ns, db, r.val, 1),
         LAMBDA x1 : AndThen(banner(x1, Line("-- TRANSACTION")),
           LAMBDA x2 : AndThen(send_each(x2, << Line("BEGIN TRANSACTION;"), Line("") >>),
             LAMBDA x3 : AndThen(export_datas(x3, ns, db, r.val, 1),
               LAMBDA x4 : AndThen(banner(x4, Line("-- TRANSACTION")),
                 LAMBDA x5 : send_each(x5, << Line("COMMIT TRANSACTION;"), Line("") >>))))))

export(t, ns, db) ==
  AndThen(export_options(R(t, "Ok", <<>>)),
    LAMBDA x1 : AndThen(export_logins(x1, ns, db),
      LAMBDA x2 : AndThen(export_tokens(x2, ns, db),
        LAMBDA x3 : AndThen(export_scopes(x3, ns, db),
          LAMBDA x4 : IF x4.err # "Ok" THEN x4
                      ELSE AndThen(all_tb(x4.t, ns, db),
                             LAMBDA r : export_tables(r, ns, db))))))

(***************************************************************************)
(* The export state machine: one handle over a database (namespace "a",    *)
(* database "b") with or without logins, tokens, scopes, tables "c" and    *)
(* "d", their fields, indexes and events, and rows; the owner exports,     *)
(* with the next backend failure and the drop of the receiver anywhere,    *)
(* takes the result, and may cancel.                                       *)
(***************************************************************************)
\* the stored form of a login, token, scope, field, index or event: its
\* kind's key with its name, and its name with what it is defined on
StoredStmt(head, name, what) == << Append(head, name), <<4, name, what>> >>

\* the row of table tb with the four decimal digits of i as its id
StoredRow(tb, i) ==
  << <<120, 97, 98, tb>> \o Tail(PKey(i)), <<9>> \o Tail(PKey(i)) >>

\* the rows 0 .. n-1 of table tb, ascending
StoredRows(tb, n) == [j \in 1..n |-> StoredRow(tb, j - 1)]

StoredTable(tb) == << tb_new(97, 98, tb), tb_val(Table(tb, "none")) >>

RECURSIVE Catalogue(_)
\* the store that holds the entries es
Catalogue(es) ==
  IF Len(es) = 0 THEN <<>>
  ELSE Insert(Catalogue(Tail(es)), Head(es)[1], Head(es)[2])

\* a database with every section, two tables and rows in both
FullStore ==
  Catalogue(<< StoredStmt(<<108, 97, 98>>, 1, 0), StoredStmt(<<108, 97, 98>>, 2, 0),
               StoredStmt(<<107, 97, 98>>, 3, 0), StoredStmt(<<115, 97, 98>>, 4, 0),
               StoredTable(99), StoredTable(100),
               StoredStmt(<<102, 97, 98, 99>>, 5, 99),
               StoredStmt(<<101, 97, 98, 99>>, 6, 99),
               StoredStmt(<<105, 97, 98, 100>>, 7, 100) >>)
    \o StoredRows(99, 2) \o StoredRows(100, 1)

ExportStores ==
  { <<>>,
    Catalogue(<< StoredStmt(<<108, 97, 98>>, 1, 0) >>),
    Catalogue(<< StoredStmt(<<107, 97, 98>>, 3, 0), StoredStmt(<<115, 97, 98>>, 4, 0) >>),
    Catalogue(<< StoredTable(99) >>),
    Catalogue(<< StoredTable(99), StoredStmt(<<102, 97, 98, 99>>, 5, 99),
                 StoredStmt(<<105, 97, 98, 99>>, 7, 99) >>) \o StoredRows(99, 2),
    FullStore,
    Catalogue(<< StoredTable(99) >>) \o StoredRows(99, 1000),
    Catalogue(<< StoredTable(99) >>) \o StoredRows(99, 1001) }

\* the backend call that fails: none, the first list, the list of tables, a
\* list of a table, the first scan of rows, a later one
ExportFaults == {NoFault, 0, 3, 5, 7, 8}

\* the messages the receiver takes before it is dropped: all, none, the
\* options without their last line, and some way into the tables or the rows
ExportDrops == {NoFault, 0, 5, 12, 25, 1022}

\* the handle as export finds it, the next backend failure at f and the
\* receiver dropped after c messages
ExportCall(f, c) ==
  [closed |-> tx.closed, rw |-> tx.rw, kv |-> tx.kv, cache |-> tx.cache,
   io |-> f, cf |-> FALSE, chn |-> c, log |-> <<>>]

ExportInit ==
  /\ tx \in [closed : {FALSE}, rw : BOOLEAN, kv : ExportStores, cache : {cache_new}]
  /\ ret = Idle

Export ==
  \E f \in ExportFaults, c \in ExportDrops :
    LET r == export(ExportCall(f, c), 97, 98) IN
    /\ ret.op = "none"
    /\ tx' = CatHandle(r.t)
    /\ ret' = Outcome("export", <<97, 98, c>>, f, FALSE, r)

ExportCancel ==
  LET r == cancel(ExportCall(NoFault, NoFault)) IN
  /\ ret.op = "none"
  /\ tx' = CatHandle(r.t)
  /\ ret' = Outcome("cancel", <<>>, NoFault, FALSE, r)

ExportNext == Export \/ ExportCancel \/ Return

SpecExport == ExportInit /\ [][ExportNext]_vars

(***************************************************************************)
(* Properties.                                                             *)
(***************************************************************************)
\* the handle h as a call made with no failure pending finds it
Quiet(h) ==
  [closed |-> h.closed, rw |-> h.rw, kv |-> h.kv,
   io |-> NoFault, cf |-> FALSE, log |-> <<>>]

\* C1: once commit or cancel has returned on a handle, every operation called
\* on it afterwards (commit and cancel included, whatever the arguments)
\* yields TxFinished.
C1_FinishedAfterClose ==
  [][(tx.closed /\ ret'.op \notin {"none", "closed"}) => ret'.err = "TxFinished"]_vars

\* C2: a commit or cancel called on an open handle leaves it closed, whether
\* it succeeded or failed (TxConflict, Io), and a commit or cancel called on a
\* closed handle does not succeed: it yields TxFinished and changes nothing.
C2_TerminatesOnce ==
  [][ret'.op \in {"commit", "cancel"} =>
       /\ closed(Quiet(tx'))
       /\ tx.closed => (ret'.err = "TxFinished" /\ tx' = tx)
       /\ (ret'.op = "cancel" /\ ~tx.closed) => ret'.err = "Ok"
       /\ (ret'.op = "commit" /\ ~tx.closed) => ret'.err \in {"Ok", "TxConflict", "Io"}]_vars

\* a commit has failed on an open handle, which is now closed
C2_Witness ==
  /\ ret.op = "commit"
  /\ ret.err \in {"TxConflict", "Io"}
  /\ closed(Quiet(tx))

\* the number of entries of the list out whose key is k
Count(out, k) == Cardinality({i \in 1..Len(out) : out[i][1] = k})

\* C3: the list getr(beg..end, L) returns has at most L entries, every key k
\* of it satisfies beg <= k < end, and its keys are strictly ascending, also
\* across the boundaries of the batches it was read in.
C3_GetrBounded ==
  (ret.op = "getr" /\ ret.err = "Ok") =>
    LET beg == ret.a[1]
        end == ret.a[2]
        out == ret.val
    IN  /\ u32_geq_nat(ret.a[3], Len(out))
        /\ \A i \in 1..Len(out) :
             KeyLeq(beg, out[i][1]) /\ KeyLess(out[i][1], end)
        /\ \A i \in 1..(Len(out) - 1) : KeyLess(out[i][1], out[i + 1][1])

\* a getr whose limit of 1001 was reached in its second batch
C3_Witness ==
  /\ ret.op = "getr"
  /\ ret.err = "Ok"
  /\ ret.a[3] = u32_of(1001)
  /\ Len(ret.val) = 1001
  /\ Len(ret.log) = 2

\* C4: with n keys preloaded (n = 1, 1000, 1001, 2500) and no limit, getr
\* over the full range returns exactly the n preloaded entries, in ascending
\* order, none twice and none missing.
C4_GetrPreloaded ==
  \A n \in PageSizes :
    ( /\ tx.kv = Preload(n)
      /\ ret.op = "getr"
      /\ ret.a = <<PKey(0), PKey(9999), u32_MAX>> )
    => (ret.err = "Ok" /\ ret.val = Preload(n))

\* the 2500 preloaded entries have been read in three batches and a fourth,
\* empty one
C4_Witness ==
  /\ tx.kv = Preload(2500)
  /\ ret.op = "getr"
  /\ ret.a = <<PKey(0), PKey(9999), u32_MAX>>
  /\ Len(ret.val) = 2500
  /\ Len(ret.log) = 4

\* C5: when the store holds a key A and the key A followed by 0x00, both in
\* the range read, a getr or getp whose limit reaches as far as the second
\* returns each of the two exactly once, also when A is the last key of a
\* batch.
C5_Successor ==
  (ret.op \in {"getr", "getp"} /\ ret.err = "Ok") =>
    LET beg == ret.a[1]
        end == IF ret.op = "getr" THEN ret.a[2] ELSE add(ret.a[1], 255)
        lim == IF ret.op = "getr" THEN ret.a[3] ELSE ret.a[2]
        out == ret.val
    IN  \A i \in 1..(Len(tx.kv) - 1) :
          LET A == tx.kv[i][1]
              A0 == tx.kv[i + 1][1]
          IN  ( /\ A0 = Append(A, 0)
                /\ KeyLeq(beg, A)
                /\ KeyLess(A0, end)
                /\ u32_geq_nat(lim, (i + 1) - Rank(tx.kv, beg)) )
              => (Count(out, A) = 1 /\ Count(out, A0) = 1)

\* k0999 was the last key of the first batch, the second batch started at
\* k0999 followed by 0x00, and both keys were returned
C5_Witness ==
  /\ ret.op = "getr"
  /\ ret.err = "Ok"
  /\ Len(ret.log) >= 2
  /\ ret.log[2].a[1] = Append(PKey(999), 0)
  /\ Len(ret.val) >= 1001
  /\ ret.val[1000][1] = PKey(999)
  /\ ret.val[1001][1] = Append(PKey(999), 0)

\* C6: every key of the list getp(prefix, L) returns starts with prefix.
C6_GetpPrefix ==
  (ret.op = "getp" /\ ret.err = "Ok") =>
    \A i \in 1..Len(ret.val) : StartsWith(ret.val[i][1], ret.a[1])

\* a getp that returned two keys and left out a key after its range
C6_Witness ==
  /\ ret.op = "getp"
  /\ ret.err = "Ok"
  /\ ret.a[1] = <<1>>
  /\ Len(ret.val) >= 2
  /\ Has(tx.kv, <<2>>)

\* C7: getp(prefix, limit) returns the list, and issues the backend scans, of
\* getr over [prefix, prefix followed by 0xff) with the same limit, and
\* delp(prefix, limit) leaves the store that delr over that range leaves; in
\* each pair the two end alike (the same error, the same backend calls).
C7_PrefixIsRange ==
  [][ /\ ret'.op = "getp" =>
           LET p == ret'.a[1]
               g == getr(Call(ret'.io, FALSE), p, Append(p, 255), ret'.a[2])
           IN  /\ g.val = ret'.val
               /\ g.t.log = ret'.log
               /\ g.err = ret'.err
               /\ Handle(g.t) = tx'
      /\ ret'.op = "delp" =>
           LET p == ret'.a[1]
               d == delr(Call(ret'.io, FALSE), p, Append(p, 255), ret'.a[2])
           IN  /\ Handle(d.t) = tx'
               /\ d.t.log = ret'.log
               /\ d.err = ret'.err ]_vars

\* a delp that deleted two keys of its prefix and then found no more
C7_Witness ==
  /\ ret.op = "delp"
  /\ ret.err = "Ok"
  /\ Len(ret.log) = 4
  /\ ret.log[2].op = "del"
  /\ ret.log[4].op = "scan"

\* C8: once delp(prefix, unlimited) has completed, no key that starts with
\* prefix is left in the transaction's view, and every key that does not
\* start with prefix is there with the value it had.
C8_DelpClearsPrefix ==
  [][(ret'.op = "delp" /\ ret'.err = "Ok" /\ ret'.a[2] = u32_MAX) =>
       LET p == ret'.a[1] IN
       /\ \A i \in 1..Len(tx'.kv) : ~StartsWith(tx'.kv[i][1], p)
       /\ \A i \in 1..Len(tx.kv) :
            ~StartsWith(tx.kv[i][1], p) =>
               get(Quiet(tx'), tx.kv[i][1]).val = <<tx.kv[i][2]>> ]_vars

\* C9: in an open transaction a set(k, v) or del(k) that meets no failure
\* succeeds on a writeable handle, get(k) is then Some(v), or None after the
\* del, and stays so until the next write to k: an operation changes what
\* get(k) returns only if it is a write that reaches k, and get(k) returns
\* what the view holds.
C9_ReadYourWrites ==
  [][~tx'.closed =>
       \A k \in Keys :
         /\ (ret'.op = "set" /\ ret'.a[1] = k /\ tx.rw /\ ret'.io = NoFault) =>
              /\ ret'.err = "Ok"
              /\ get(Quiet(tx'), k) = R(Logged(Quiet(tx'), "get", <<k>>), "Ok", <<ret'.a[2]>>)
         /\ (ret'.op = "del" /\ ret'.a[1] = k /\ tx.rw /\ ret'.io = NoFault) =>
              /\ ret'.err = "Ok"
              /\ get(Quiet(tx'), k).val = <<>>
         /\ get(Quiet(tx'), k).val # get(Quiet(tx), k).val =>
              \/ /\ ret'.op \in {"set", "put", "putc", "del", "delc"}
                 /\ ret'.a[1] = k
                 /\ ret'.err = "Ok"
              \/ ret'.op \in {"delr", "delp"}
         /\ (ret'.op = "get" /\ ret'.a[1] = k /\ ret'.err = "Ok") =>
              ret'.val = get(Quiet(tx), k).val ]_vars

\* a set has replaced the value of a key of the view
C9_Witness ==
  /\ ret.op = "set"
  /\ ret.err = "Ok"
  /\ ~tx.closed
  /\ Len(tx.kv) >= 2
  /\ get(Quiet(tx), ret.a[1]).val = <<ret.a[2]>>

\* C10: on an open writeable handle, no backend failure met, put(k, v) on a
\* key present in the view fails with TxKeyAlreadyExists and leaves the value
\* of k and of every other key unchanged; on an absent key it succeeds, k then
\* holds v and every other key is unchanged.
C10_PutIfAbsent ==
  [][(ret'.op = "put" /\ ~tx.closed /\ tx.rw /\ ret'.io = NoFault) =>
       LET k == ret'.a[1]
           v == ret'.a[2]
       IN  IF get(Quiet(tx), k).val # <<>>
           THEN ret'.err = "TxKeyAlreadyExists" /\ tx' = tx
           ELSE /\ ret'.err = "Ok"
                /\ get(Quiet(tx'), k).val = <<v>>
                /\ \A i \in 1..Len(tx.kv) :
                     get(Quiet(tx'), tx.kv[i][1]).val = <<tx.kv[i][2]>>
                /\ Len(tx'.kv) = Len(tx.kv) + 1 ]_vars

\* a put has been refused on a key that holds another value
C10_Witness ==
  /\ ret.op = "put"
  /\ ret.err = "TxKeyAlreadyExists"
  /\ get(Quiet(tx), ret.a[1]).val \notin {<<>>, <<ret.a[2]>>}

\* C11: on an open writeable handle, no backend failure met, putc(k, v,
\* Some(old)) succeeds exactly when get(k) is Some(old) at the call, and
\* get(k) is then Some(v); otherwise it returns TxConditionNotMet and the
\* store is unchanged.
C11_PutcChecked ==
  [][(/\ ret'.op = "putc"
      /\ ret'.a[3] # <<>>
      /\ ~tx.closed /\ tx.rw /\ ret'.io = NoFault) =>
       LET k == ret'.a[1]
           v == ret'.a[2]
           old == ret'.a[3][1]
       IN  IF get(Quiet(tx), k).val = <<old>>
           THEN /\ ret'.err = "Ok"
                /\ get(Quiet(tx'), k).val = <<v>>
           ELSE /\ ret'.err = "TxConditionNotMet"
                /\ tx' = tx ]_vars

\* a putc has been refused on a key that holds a value other than the one
\* expected and the one offered
C11_Witness ==
  /\ ret.op = "putc"
  /\ ret.err = "TxConditionNotMet"
  /\ ret.a[3] # <<>>
  /\ get(Quiet(tx), ret.a[1]).val \notin {<<>>, ret.a[3], <<ret.a[2]>>}

\* the catalog handle h as a call made with no failure pending finds it
CatQuiet(h) ==
  [closed |-> h.closed, rw |-> h.rw, kv |-> h.kv, cache |-> h.cache,
   io |-> NoFault, cf |-> FALSE, log |-> <<>>]

\* the cache key of the list accessor op called with a
ListKey(op, a) == IF op = "all_ns" THEN ns_prefix ELSE tb_prefix(a[1], a[2])

\* C12: two calls of a cached list accessor in one transaction return equal
\* lists whatever happens between them, the second without a backend scan:
\* a call that returns a list leaves it in the cache under the list key, no
\* operation changes or removes a list the cache holds, and a call that
\* finds the list in the cache returns it and issues no backend call.
C12_ListsCached ==
  [][ /\ \A k \in {ns_prefix, tb_prefix(97, 98)} :
           cache_exi(tx.cache, k) =>
             /\ cache_exi(tx'.cache, k)
             /\ cache_get(tx'.cache, k) = cache_get(tx.cache, k)
      /\ ret'.op \in {"all_ns", "all_tb"} =>
           LET key == ListKey(ret'.op, ret'.a) IN
           /\ ret'.err = "Ok" =>
                /\ cache_exi(tx'.cache, key)
                /\ cache_get(tx'.cache, key).v = ret'.val
           /\ cache_exi(tx.cache, key) =>
                /\ ret'.err = "Ok"
                /\ ret'.val = cache_get(tx.cache, key).v
                /\ ret'.log = <<>> ]_vars

\* all_tb has returned, from the cache, a table the store no longer holds
C12_Witness ==
  /\ ret.op = "all_tb"
  /\ ret.err = "Ok"
  /\ ret.log = <<>>
  /\ Len(ret.val) = 1
  /\ ~Has(tx.kv, tb_new(97, 98, 99))

\* the ensure-or-create helpers, cached and not
AddOps == {"add_ns", "add_db", "add_tb"}

AddAndCacheOps == {"add_and_cache_ns", "add_and_cache_db", "add_and_cache_tb"}

\* the key, the default entity and the NotFound error of the helper op
\* called with a
AddKey(op, a) ==
  IF op \in {"add_ns", "add_and_cache_ns"} THEN ns_new(a[1])
  ELSE IF op \in {"add_db", "add_and_cache_db"} THEN db_new(a[1], a[2])
  ELSE tb_new(a[1], a[2], a[3])

AddDefault(op, a) ==
  IF op \in {"add_ns", "add_and_cache_ns"} THEN Namespace(a[1])
  ELSE IF op \in {"add_db", "add_and_cache_db"} THEN Database(a[2])
  ELSE Table(a[3], "none")

AddNotFound(op) ==
  IF op \in {"add_ns", "add_and_cache_ns"} THEN "NsNotFound"
  ELSE IF op \in {"add_db", "add_and_cache_db"} THEN "DbNotFound"
  ELSE "TbNotFound"

\* the same non-strict add_X called once more on the handle h
AddAgain(h, op, a) ==
  IF op = "add_ns" THEN add_ns(CatQuiet(h), a[1], FALSE)
  ELSE IF op = "add_db" THEN add_db(CatQuiet(h), a[1], a[2], FALSE)
  ELSE add_tb(CatQuiet(h), a[1], a[2], a[3], FALSE)

\* the entity get_X reads back on the handle h
GetBack(h, op, a) ==
  IF op = "add_ns" THEN get_ns(CatQuiet(h), a[1])
  ELSE IF op = "add_db" THEN get_db(CatQuiet(h), a[1], a[2])
  ELSE get_tb(CatQuiet(h), a[1], a[2], a[3])

\* C13: on an open writeable handle, no backend failure met, a non-strict
\* add_ns / add_db / add_tb on a store without the entity returns the default
\* entity and persists it under the entity's key, get_X then reads an equal
\* entity, and the same call made again returns an equal entity, succeeds,
\* issues no write and leaves the handle as it was.
C13_AddIdempotent ==
  [][(/\ ret'.op \in AddOps
      /\ ~ret'.a[Len(ret'.a)]
      /\ ~tx.closed /\ tx.rw /\ ret'.io = NoFault
      /\ ~Has(tx.kv, AddKey(ret'.op, ret'.a))) =>
       LET again == AddAgain(tx', ret'.op, ret'.a) IN
       /\ ret'.err = "Ok"
       /\ ret'.val = AddDefault(ret'.op, ret'.a)
       /\ Has(tx'.kv, AddKey(ret'.op, ret'.a))
       /\ GetBack(tx', ret'.op, ret'.a).val = ret'.val
       /\ again.err = "Ok"
       /\ again.val = ret'.val
       /\ \A i \in 1..Len(again.t.log) : again.t.log[i].op = "get"
       /\ CatHandle(again.t) = tx' ]_vars

\* add_tb has created the table
C13_Witness ==
  /\ ret.op = "add_tb"
  /\ ret.err = "Ok"
  /\ Len(ret.log) = 2
  /\ ret.log[2].op = "put"
  /\ Has(tx.kv, tb_new(97, 98, 99))

\* C14 as stated: in strict mode, on an open handle with no backend failure,
\* every add_X and add_and_cache_X called for an entity the store does not
\* hold returns the kind's NotFound and leaves store and cache unchanged.
C14_StrictNeverCreates ==
  [][(/\ ret'.op \in AddOps \cup AddAndCacheOps
      /\ ret'.a[Len(ret'.a)]
      /\ ~tx.closed /\ ret'.io = NoFault
      /\ ~Has(tx.kv, AddKey(ret'.op, ret'.a))) =>
       /\ ret'.err = AddNotFound(ret'.op)
       /\ tx' = tx ]_vars

\* C14, amended: the same where, for the add_and_cache_X helpers, the cache
\* does not hold the entity either; an entity read earlier through the cache
\* and deleted since is returned from the cache instead.
C14_StrictNeverCreatesUncached ==
  [][(/\ ret'.op \in AddOps \cup AddAndCacheOps
      /\ ret'.a[Len(ret'.a)]
      /\ ~tx.closed /\ ret'.io = NoFault
      /\ ~Has(tx.kv, AddKey(ret'.op, ret'.a))
      /\ ret'.op \in AddAndCacheOps =>
           ~cache_exi(tx.cache, AddKey(ret'.op, ret'.a))) =>
       /\ ret'.err = AddNotFound(ret'.op)
       /\ tx' = tx ]_vars

\* a strict add_and_cache_db has refused to create the missing database
C14_Witness ==
  /\ ret.op = "add_and_cache_db"
  /\ ret.a[3]
  /\ ret.err = "DbNotFound"
  /\ ~Has(tx.kv, db_new(97, 98))

\* C15: an ensure-or-create helper that has to read the store returns every
\* failure of the read but its own NotFound, and every failure of the put,
\* as it is: TxFinished on a closed handle and Io from the read after the one
\* backend call, and TxReadOnly or Io from the put after the read and one
\* put (no retry), each time with no entity and with the handle unchanged.
C15_ErrorsPropagate ==
  [][(/\ ret'.op \in AddOps \cup AddAndCacheOps
      /\ ret'.op \in AddAndCacheOps =>
           ~cache_exi(tx.cache, AddKey(ret'.op, ret'.a))) =>
       LET absent == ~Has(tx.kv, AddKey(ret'.op, ret'.a))
           strict == ret'.a[Len(ret'.a)]
           failed(e, n) == /\ ret'.err = e
                           /\ ret'.val = <<>>
                           /\ Len(ret'.log) = n
                           /\ ret'.log[n].op = IF n = 1 THEN "get" ELSE "put"
                           /\ tx' = tx
       IN  /\ tx.closed => failed("TxFinished", 1)
           /\ (~tx.closed /\ ret'.io = 0) => failed("Io", 1)
           /\ (~tx.closed /\ ret'.io # 0 /\ absent /\ ~strict /\ ~tx.rw) =>
                failed("TxReadOnly", 2)
           /\ (~tx.closed /\ ret'.io = 1 /\ absent /\ ~strict /\ tx.rw) =>
                failed("Io", 2)
           /\ ret'.err # "Ok" => ret'.val = <<>> ]_vars

\* add_tb on a read-only handle: the put has been refused and nothing more
\* was tried
C15_Witness ==
  /\ ret.op = "add_tb"
  /\ ret.err = "TxReadOnly"
  /\ Len(ret.log) = 2
  /\ ~Has(tx.kv, tb_new(97, 98, 99))

\* what check_ns_db_tb(ns, db, tb, true) returns when found(k) tells which
\* of the three entities its lookups find
CheckError(found(_), a) ==
  IF ~found(ns_new(a[1])) THEN "NsNotFound"
  ELSE IF ~found(db_new(a[1], a[2])) THEN "DbNotFound"
  ELSE IF ~found(tb_new(a[1], a[2], a[3])) THEN "TbNotFound"
  ELSE "Ok"

\* C16 as stated: check_ns_db_tb with strict = false returns Ok without a
\* read; with strict = true, on an open handle with no backend failure, the
\* result is decided by the store: NsNotFound if it does not hold the
\* namespace, else DbNotFound if it does not hold the database, else
\* TbNotFound if it does not hold the table, else Ok.
C16_CheckByStore ==
  [][ret'.op = "check_ns_db_tb" =>
       /\ ~ret'.a[4] => (ret'.err = "Ok" /\ ret'.log = <<>> /\ tx' = tx)
       /\ (ret'.a[4] /\ ~tx.closed /\ ret'.io = NoFault) =>
            LET stored(k) == Has(tx.kv, k) IN
            ret'.err = CheckError(stored, ret'.a) ]_vars

\* C16, amended: with strict = true the three lookups go through the cached
\* getters, so an entity counts as found when the cache holds it or else the
\* store does; the lookups run in the order namespace, database, table, stop
\* at the first entity not found, and read the store only for the entities
\* the cache does not hold.
C16_CheckInOrder ==
  [][ret'.op = "check_ns_db_tb" =>
       /\ ~ret'.a[4] => (ret'.err = "Ok" /\ ret'.log = <<>> /\ tx' = tx)
       /\ (ret'.a[4] /\ ~tx.closed /\ ret'.io = NoFault) =>
            LET found(k) == cache_exi(tx.cache, k) \/ Has(tx.kv, k)
                a == ret'.a
                e == CheckError(found, a)
                all == <<ns_new(a[1]), db_new(a[1], a[2]), tb_new(a[1], a[2], a[3])>>
                looked == SubSeq(all, 1, IF e = "NsNotFound" THEN 1
                                         ELSE IF e = "DbNotFound" THEN 2 ELSE 3)
                read == SelectSeq(looked, LAMBDA k : ~cache_exi(tx.cache, k))
            IN  /\ ret'.err = e
                /\ [i \in 1..Len(ret'.log) |-> ret'.log[i].a[1]] = read
                /\ tx'.kv = tx.kv ]_vars

\* the check has stopped at the missing database although the table is there
C16_Witness ==
  /\ ret.op = "check_ns_db_tb"
  /\ ret.a[4]
  /\ ret.err = "DbNotFound"
  /\ Len(ret.log) = 2
  /\ Has(tx.kv, tb_new(97, 98, 99))

\* transaction i has created the namespace and committed it
Creator(i) == tx.h[i].wr # {} /\ tx.h[i].cerr = "Ok"

\* C17: of two transactions that both run add_ns(ns, false) and both find
\* the namespace absent when they read, at most one both writes the default
\* entity and commits successfully, and once one has, the other, when it has
\* committed too, holds an error from its put or from its commit.
C17_CreatorsCollide ==
  (\A i \in RaceTxs : tx.h[i].got # <<>> /\ tx.h[i].got[1].err = "NsNotFound") =>
    /\ ~(Creator(1) /\ Creator(2))
    /\ \A i \in RaceTxs, j \in RaceTxs :
         (i # j /\ Creator(i) /\ tx.h[j].cerr # "") =>
            (tx.h[j].perr # "Ok" \/ tx.h[j].cerr # "Ok")

\* both have read the namespace absent and put it; the first has committed
\* and the second has met the conflict at its commit
C17_Witness ==
  /\ \A i \in RaceTxs : tx.h[i].got # <<>> /\ tx.h[i].got[1].err = "NsNotFound"
  /\ \A i \in RaceTxs : tx.h[i].perr = "Ok"
  /\ \E i \in RaceTxs, j \in RaceTxs : Creator(i) /\ tx.h[j].cerr = "TxConflict"

\* the messages an operation has sent, in order
Sent(log) ==
  LET s == SelectSeq(log, LAMBDA e : e.op = "send")
  IN  [i \in 1..Len(s) |-> s[i].a[1]]

\* the number of entries of the store kv of the kind with the key tag tag
Stored(kv, tag) == Cardinality({i \in 1..Len(kv) : kv[i][1][1] = tag})

\* the number of messages of S with the text text
Lines(S, text) == Cardinality({p \in 1..Len(S) : S[p].text = text})

\* the part of the script a message belongs to, 0 for the comment bars, the
\* empty lines and the "-- TRANSACTION" titles found in more than one part
Stage(m) ==
  CASE m.text \in {"-- OPTION", "OPTION IMPORT;"} -> 1
    [] m.text \in {"-- LOGINS", "DEFINE LOGIN"} -> 2
    [] m.text \in {"-- TOKENS", "DEFINE TOKEN"} -> 3
    [] m.text \in {"-- SCOPES", "DEFINE SCOPE"} -> 4
    [] m.text \in {"-- TABLE:", "DEFINE TABLE", "DEFINE FIELD", "DEFINE INDEX",
                   "DEFINE EVENT"} -> 5
    [] m.text = "BEGIN TRANSACTION;" -> 6
    [] m.text \in {"-- TABLE DATA:", "UPDATE"} -> 7
    [] m.text = "COMMIT TRANSACTION;" -> 8
    [] OTHER -> 0

\* the table a message of the tables' definitions is about
DefTable(m) == IF m.text \in {"-- TABLE:", "DEFINE TABLE"} THEN m.a ELSE m.b[1]

\* its place among the messages of its table
DefRank(m) ==
  CASE m.text = "-- TABLE:" -> 0
    [] m.text = "DEFINE TABLE" -> 1
    [] m.text = "DEFINE FIELD" -> 2
    [] m.text = "DEFINE INDEX" -> 3
    [] m.text = "DEFINE EVENT" -> 4

\* the first six messages of every script
OptionBlock ==
  << "-- ------------------------------", "-- OPTION",
     "-- ------------------------------", "", "OPTION IMPORT;", "" >>

\* the titles of the sections of the database, with the tag of their keys
\* and the text of their statements
Sections ==
  { <<"-- LOGINS", 108, "DEFINE LOGIN">>, <<"-- TOKENS", 107, "DEFINE TOKEN">>,
    <<"-- SCOPES", 115, "DEFINE SCOPE">> }

\* the statements of the tables, with the tag of their keys
TableParts ==
  { <<"-- TABLE:", 116>>, <<"DEFINE TABLE", 116>>, <<"DEFINE FIELD", 102>>,
    <<"DEFINE INDEX", 105>>, <<"DEFINE EVENT", 101>>, <<"-- TABLE DATA:", 116>> }

\* C18: the messages export sends are ordered.  They start with the OPTION
\* banner and "OPTION IMPORT;", all six lines of it when export succeeds.
\* The parts of the script follow each other as options, logins, tokens,
\* scopes, table definitions, BEGIN TRANSACTION, table data, COMMIT
\* TRANSACTION, so every DEFINE statement of a table precedes BEGIN, every
\* UPDATE lies after BEGIN and before COMMIT, and COMMIT is the last
\* statement.  Within the definitions each table has its title, its DEFINE
\* TABLE, then its fields, its indexes and its events, the tables ascending.
\* A section is sent only when the database has entries of its kind, and
\* BEGIN and COMMIT only when it has a table; a successful export has sent
\* every section that has entries with each of its statements, and BEGIN and
\* COMMIT exactly once if there is a table.
C18_ExportOrdered ==
  (ret.op = "export") =>
    LET S == Sent(ret.log)
        N == SelectSeq(S, LAMBDA m : Stage(m) # 0)
        D == SelectSeq(S, LAMBDA m : Stage(m) = 5)
        ok == ret.err = "Ok"
        tables == Stored(tx.kv, 116)
    IN  /\ \A p \in 1..Len(S) : p <= 6 => S[p].text = OptionBlock[p]
        /\ ok => Len(S) >= 6
        /\ \A p \in 1..(Len(N) - 1) : Stage(N[p]) <= Stage(N[p + 1])
        /\ Len(D) > 0 => DefRank(D[1]) = 0
        /\ \A p \in 1..(Len(D) - 1) :
             IF DefTable(D[p]) = DefTable(D[p + 1])
             THEN \/ DefRank(D[p]) = 0 /\ DefRank(D[p + 1]) = 1
                  \/ DefRank(D[p]) >= 1 /\ DefRank(D[p + 1]) >= 2
                       /\ DefRank(D[p]) <= DefRank(D[p + 1])
             ELSE DefTable(D[p]) < DefTable(D[p + 1]) /\ DefRank(D[p + 1]) = 0
        /\ \A s \in Sections :
             /\ Lines(S, s[1]) <= (IF Stored(tx.kv, s[2]) > 0 THEN 1 ELSE 0)
             /\ Lines(S, s[3]) <= Stored(tx.kv, s[2])
             /\ Lines(S, s[3]) > 0 => Lines(S, s[1]) = 1
             /\ ok => /\ Lines(S, s[1]) = (IF Stored(tx.kv, s[2]) > 0 THEN 1 ELSE 0)
                      /\ Lines(S, s[3]) = Stored(tx.kv, s[2])
        /\ \A s \in TableParts :
             /\ Lines(S, s[1]) <= Stored(tx.kv, s[2])
             /\ ok => Lines(S, s[1]) = Stored(tx.kv, s[2])
        /\ \A text \in {"BEGIN TRANSACTION;", "COMMIT TRANSACTION;"} :
             /\ Lines(S, text) <= (IF tables > 0 THEN 1 ELSE 0)
             /\ ok => Lines(S, text) = (IF tables > 0 THEN 1 ELSE 0)
        /\ Lines(S, "UPDATE") > 0 => Lines(S, "BEGIN TRANSACTION;") = 1
        /\ Lines(S, "COMMIT TRANSACTION;") > 0 => Stage(N[Len(N)]) = 8

\* a database with logins, a token, a scope and two tables with a field, an
\* index, an event and rows has been exported to the end
C18_Witness ==
  /\ ret.op = "export"
  /\ ret.err = "Ok"
  /\ tx.kv = FullStore
  /\ Lines(Sent(ret.log), "COMMIT TRANSACTION;") = 1
  /\ Lines(Sent(ret.log), "UPDATE") = 3

\* the number of backend calls in the log
Calls(log) == Cardinality({p \in 1..Len(log) : log[p].op # "send"})

\* the number of messages in the log
Sends(log) == Cardinality({p \in 1..Len(log) : log[p].op = "send"})

\* C19: export aborts on the first failure.  Against the run of the same
\* export with no failure injected: what export has done is the start of
\* that run up to the first send the receiver does not take or the first
\* backend call that fails, with nothing sent and nothing scanned afterwards;
\* it returns ChannelSend in the first case and the backend's error in the
\* second, and Ok only when no failure lies within the run; after a failure
\* COMMIT TRANSACTION; has not been sent.
C19_ExportAborts ==
  [][(ret.op = "none" /\ ret'.op = "export") =>
       LET whole == export(ExportCall(NoFault, NoFault), 97, 98)
           full == whole.t.log
           got == ret'.log
           k == Len(got)
           f == ret'.io
           c == ret'.a[3]
       IN  /\ k <= Len(full)
           /\ got = SubSeq(full, 1, k)
           /\ CASE ret'.err = "Ok" ->
                     /\ k = Len(full)
                     /\ whole.err = "Ok"
                     /\ c = NoFault \/ c >= Sends(full)
                     /\ f = NoFault \/ f >= Calls(full)
                [] ret'.err = "ChannelSend" ->
                     /\ Sends(got) = c
                     /\ k < Len(full) /\ full[k + 1].op = "send"
                     /\ f = NoFault \/ f >= Calls(got)
                [] ret'.err = "Io" ->
                     /\ Calls(got) = f + 1
                     /\ got[k].op = "scan"
                     /\ c = NoFault \/ c >= Sends(got)
                [] OTHER ->
                     /\ ret'.err = whole.err
                     /\ k = Len(full)
                     /\ got[k].op = "scan"
           /\ ret'.err # "Ok" => Lines(Sent(got), "COMMIT TRANSACTION;") = 0
    ]_vars

\* the receiver was dropped after the first window of 1000 rows of a table
\* of 1001: the next window has been scanned, its row was not taken, and
\* the export has stopped there
C19_Witness ==
  /\ ret.op = "export"
  /\ ret.err = "ChannelSend"
  /\ Lines(Sent(ret.log), "UPDATE") = 1000
  /\ ret.log[Len(ret.log)].op = "scan"
  /\ Len(tx.kv) = 1002

\* the rows of the store kv under the thing range of table tb, ascending
RowsOf(kv, tb) ==
  SelectSeq(kv, LAMBDA e : e[1][1] = 120 /\ e[1][4] = tb)

\* what the log holds about the rows of table tb: the scans of its thing
\* range and its UPDATE lines, in order
RowLog(log, tb) ==
  SelectSeq(log, LAMBDA e :
    IF e.op = "send" THEN e.a[1].text = "UPDATE" /\ e.a[1].a = tb
    ELSE e.a[2] = thing_suffix(97, 98, tb))

\* the scans and the UPDATE lines of a table with the rows rows, window by
\* window: a scan from the start of the range, the first 1000 rows, a scan
\* from behind the last of them, the next 1000 rows, and so on to the scan
\* behind the last row, which finds nothing
RowScript(rows, tb) ==
  LET n == Len(rows)
      L == n + ((n + 999) \div 1000) + 1
  IN  [p \in 1..L |->
        LET w == (p - 1) \div 1001
            o == (p - 1) % 1001
        IN  IF p = L
            THEN [op |-> "scan",
                  a |-> << IF n = 0 THEN thing_prefix(97, 98, tb)
                           ELSE push(rows[n][1], 0),
                           thing_suffix(97, 98, tb), u32_of(1000) >>]
            ELSE IF o = 0
            THEN [op |-> "scan",
                  a |-> << IF w = 0 THEN thing_prefix(97, 98, tb)
                           ELSE push(rows[w * 1000][1], 0),
                           thing_suffix(97, 98, tb), u32_of(1000) >>]
            ELSE [op |-> "send",
                  a |-> << Update(thing_into(rows[w * 1000 + o][1]),
                                  value_into(rows[w * 1000 + o][2])) >>]]

\* the tables of the store kv
TablesOf(kv) == {kv[i][1][4] : i \in {j \in 1..Len(kv) : kv[j][1][1] = 116}}

\* C20: for every table, the scans of its rows and its UPDATE lines come in
\* this order: a scan of a window of at most 1000 rows, then every row of
\* that window as one UPDATE line, then the scan of the next window, which
\* starts behind the last row sent; every row under the table's thing range
\* is sent exactly once, in ascending key order; the loop ends at the first
\* scan that finds nothing.  An export that has failed has done a start of
\* this.
C20_RowsDrained ==
  (ret.op = "export") =>
    \A tb \in TablesOf(tx.kv) :
      LET got == RowLog(ret.log, tb)
          all == RowScript(RowsOf(tx.kv, tb), tb)
      IN  /\ Len(got) <= Len(all)
          /\ got = SubSeq(all, 1, Len(got))
          /\ ret.err = "Ok" => Len(got) = Len(all)

\* a table of 1001 rows has been exported: three scans, the second behind
\* row 1000 and the third behind row 1001, and 1001 UPDATE lines
C20_Witness ==
  /\ ret.op = "export"
  /\ ret.err = "Ok"
  /\ Len(RowsOf(tx.kv, 99)) = 1001
  /\ Len(RowLog(ret.log, 99)) = 1004

\* the variant the cache holds under the key k: the list of the kind under
\* the prefix of a scope, the single record under the key of an entity
VariantOf(k) ==
  IF k = ns_prefix THEN "Nss"
  ELSE IF k = tb_prefix(97, 98) THEN "Tbs"
  ELSE IF k = ns_new(97) THEN "Ns"
  ELSE IF k = db_new(97, 98) THEN "Db"
  ELSE IF k = tb_new(97, 98, 99) THEN "Tb"
  ELSE "none"

\* C21: in every reachable state every entry of the catalog cache has the
\* variant its key determines, a list of the kind under a list-prefix key
\* and a single record of the kind under a singular key, and no accessor
\* has ended in its unreachable!() branch.
C21_CacheVariants ==
  /\ \A k \in DOMAIN tx.cache : cache_get(tx.cache, k).tag = VariantOf(k)
  /\ ret.err # "unreachable"

\* the cache holds the list of namespaces, the namespace, the list of tables
\* and the table, and all_ns has just been answered from it
C21_Witness ==
  /\ {ns_prefix, ns_new(97), tb_prefix(97, 98), tb_new(97, 98, 99)} \subseteq DOMAIN tx.cache
  /\ ret.op = "all_ns"
  /\ ret.err = "Ok"
  /\ ret.log = <<>>

\* the singular accessors, cached and not
GetOps == {"get_ns", "get_db", "get_tb"}

GetAndCacheOps == {"get_and_cache_ns", "get_and_cache_db", "get_and_cache_tb"}

\* the key, the decoded record and the NotFound error of a singular accessor
\* called with a
GetKey(a) ==
  IF Len(a) = 1 THEN ns_new(a[1])
  ELSE IF Len(a) = 2 THEN db_new(a[1], a[2])
  ELSE tb_new(a[1], a[2], a[3])

GetInto(a, v) ==
  IF Len(a) = 1 THEN ns_into(v) ELSE IF Len(a) = 2 THEN db_into(v) ELSE tb_into(v)

GetNotFound(a) ==
  IF Len(a) = 1 THEN "NsNotFound" ELSE IF Len(a) = 2 THEN "DbNotFound" ELSE "TbNotFound"

\* C22: writes do not invalidate the catalog cache.  A set, put, putc, del
\* or delc leaves the cache as it is, and no step changes or removes an
\* entry the cache holds; get_and_cache_X called when the cache holds its
\* key returns the cached record without a backend call, whatever the store
\* holds now; the uncached get_X on an open transaction whose backend does
\* not fail returns the store's current state: the record stored now, or
\* the kind's NotFound when the key is absent.
C22_CacheKeptOverWrites ==
  [][ /\ ret'.op \in {"set", "put", "putc", "del", "delc"} => tx'.cache = tx.cache
      /\ \A k \in DOMAIN tx.cache :
           /\ cache_exi(tx'.cache, k)
           /\ cache_get(tx'.cache, k) = cache_get(tx.cache, k)
      /\ (ret'.op \in GetAndCacheOps /\ cache_exi(tx.cache, GetKey(ret'.a))) =>
           /\ ret'.err = "Ok"
           /\ ret'.val = cache_get(tx.cache, GetKey(ret'.a)).v
           /\ ret'.log = <<>>
      /\ (ret'.op \in GetOps /\ ~tx.closed /\ ret'.io = NoFault) =>
           LET now == Lookup(tx.kv, GetKey(ret'.a)) IN
           IF now = <<>> THEN ret'.err = GetNotFound(ret'.a)
           ELSE ret'.err = "Ok" /\ ret'.val = GetInto(ret'.a, now[1])
    ]_vars

\* the table was cached with no permissions and then overwritten:
\* get_and_cache_tb has returned the cached table from the cache while the
\* store holds the table with full permissions
C22_Witness ==
  /\ ret.op = "get_and_cache_tb"
  /\ ret.err = "Ok"
  /\ ret.log = <<>>
  /\ ret.val = Table(99, "none")
  /\ Lookup(tx.kv, tb_new(97, 98, 99)) = <<tb_val(Table(99, "full"))>>

\* get_and_cache_X called with the names a on the handle h, no failure pending
GetAndCacheAgain(h, a) ==
  IF Len(a) = 1 THEN get_and_cache_ns(CatQuiet(h), a[1])
  ELSE IF Len(a) = 2 THEN get_and_cache_db(CatQuiet(h), a[1], a[2])
  ELSE get_and_cache_tb(CatQuiet(h), a[1], a[2], a[3])

\* the names among the arguments a of an add_and_cache_X, its strict flag
\* dropped
Names(a) == SubSeq(a, 1, Len(a) - 1)

\* C29: get_and_cache_ns/db/tb change the cache only by a successful read:
\* a call that returns NotFound or another error leaves the cache as it
\* was, and a call that returns a record leaves it under its key and
\* changes no other key.  An add_and_cache_ns/db/tb that creates the
\* default entity (it has read the key absent and its put has succeeded)
\* leaves the cache as it was, the key not in it, and the entity in the
\* store; get_and_cache_X called next then reads the backend and returns an
\* entity equal to the one created.
C29_CachedOnlyOnRead ==
  [][ /\ ret'.op \in GetAndCacheOps =>
           LET key == GetKey(ret'.a) IN
           IF ret'.err = "Ok"
           THEN /\ cache_exi(tx'.cache, key)
                /\ cache_get(tx'.cache, key).v = ret'.val
                /\ DOMAIN tx'.cache = DOMAIN tx.cache \cup {key}
                /\ \A k \in DOMAIN tx.cache : cache_get(tx'.cache, k) = cache_get(tx.cache, k)
           ELSE tx'.cache = tx.cache
      /\ (ret'.op \in AddAndCacheOps /\ ret'.err = "Ok" /\ Len(ret'.log) = 2) =>
           LET key == AddKey(ret'.op, ret'.a)
               again == GetAndCacheAgain(tx', Names(ret'.a))
           IN  /\ ret'.log[2].op = "put"
               /\ ret'.val = AddDefault(ret'.op, ret'.a)
               /\ tx'.cache = tx.cache
               /\ ~cache_exi(tx'.cache, key)
               /\ Has(tx'.kv, key)
               /\ again.err = "Ok"
               /\ again.val = ret'.val
               /\ Len(again.t.log) = 1 /\ again.t.log[1].op = "get"
               /\ cache_exi(again.t.cache, key)
    ]_vars

\* add_and_cache_tb has read the table absent and created it: the table is
\* in the store and not in the cache
C29_Witness ==
  /\ ret.op = "add_and_cache_tb"
  /\ ret.err = "Ok"
  /\ Len(ret.log) = 2
  /\ Has(tx.kv, tb_new(97, 98, 99))
  /\ ~cache_exi(tx.cache, tb_new(97, 98, 99))

(***************************************************************************)
(* The paging loops of getr, getp, delr and delp, read off the backend     *)
(* calls they issue.                                                       *)
(***************************************************************************)
PagedOps == {"getr", "getp", "delr", "delp"}

\* the limit argument of a paged call
LimitOf(op, a) == IF op \in {"getr", "delr"} THEN a[3] ELSE a[2]

\* the scans among the backend calls of a log, in order
ScansOf(log) == SelectSeq(log, LAMBDA e : e.op = "scan")

\* the entries the scan logged as e returns from the store kv
BatchOf(kv, e) == Slice(kv, e.a[1], e.a[2], Cap(kv, e.a[3]))

\* C23: a paged call that succeeds stops only on an empty batch or on a
\* remaining limit of 0: every scan but the last returned a non-empty batch
\* that left the limit unreached, and was followed, however short the batch,
\* by a scan starting at its last key followed by 0x00; the last scan
\* returned an empty batch or reached the limit exactly.
C23_PagingStops ==
  [][ (ret'.op \in PagedOps /\ ret.op = "none" /\ ret'.err = "Ok") =>
        LET lim == LimitOf(ret'.op, ret'.a)
            scans == ScansOf(ret'.log)
            m == Len(scans)
            got == [i \in 1..m |-> BatchOf(tx.kv, scans[i])]
            taken[i \in 0..m] == IF i = 0 THEN 0 ELSE taken[i - 1] + Len(got[i])
        IN  /\ (m = 0) <=> u32_zero(lim)
            /\ m > 0 => scans[1].a[1] = ret'.a[1]
            /\ \A i \in 1..(m - 1) :
                 /\ got[i] # <<>>
                 /\ u32_geq_nat(lim, taken[i] + 1)
                 /\ scans[i + 1].a[1] = push(got[i][Len(got[i])][1], 0)
            /\ m > 0 =>
                 \/ got[m] = <<>>
                 \/ lim = u32_of(taken[m])
    ]_vars

\* a batch of one entry, shorter than the 1000 asked for, has been followed
\* by a second scan starting at k0000 followed by 0x00
C23_Witness ==
  /\ ret.op = "delr"
  /\ ret.err = "Ok"
  /\ ret.a = <<PKey(0), PKey(9999), u32_of(1000)>>
  /\ Len(ScansOf(ret.log)) = 2
  /\ ScansOf(ret.log)[1].a[3] = u32_of(1000)
  /\ ScansOf(ret.log)[2].a[1] = push(PKey(0), 0)
  /\ Len(ret.log) = 3

\* C24: getr, getp, delr and delp called with a limit of 0 return at once,
\* an empty list (getr, getp) or Ok (delr, delp), with no call to the backend
\* (no scan, no del) and the store as it was, whatever the handle (open or
\* finished, writable or not) and whatever fault is pending.
C24_ZeroLimit ==
  [][ ( /\ ret.op = "none"
        /\ ret'.op \in PagedOps
        /\ u32_zero(LimitOf(ret'.op, ret'.a)) ) =>
      ( /\ ret'.err = "Ok"
        /\ ret'.val = <<>>
        /\ ret'.log = <<>>
        /\ tx' = tx )
    ]_vars

\* getp with limit 0 over a prefix that holds keys, with a backend fault
\* pending on the first call, has returned Ok
C24_Witness ==
  /\ ret.op = "getp"
  /\ u32_zero(ret.a[2])
  /\ ret.io = 0
  /\ Slice(tx.kv, ret.a[1], add(ret.a[1], 255), Len(tx.kv)) # <<>>
  /\ ret.err = "Ok"
  /\ ret.val = <<>>

\* the entries of the store kv whose key k satisfies beg <= k < end, in order
InRange(kv, beg, end) ==
  SelectSeq(kv, LAMBDA e : KeyLeq(beg, e[1]) /\ KeyLess(e[1], end))

\* min(L, n) for a u32 limit L and a count n
MinLimit(lim, n) == IF u32_geq_nat(lim, n) THEN n ELSE lim.lo

\* C25: getr(beg..end, L) returns exactly the min(L, n) smallest entries of
\* the range, n being the number of keys in [beg, end): a prefix of the full
\* ordered range, never shorter than min(L, n), also when L is not a multiple
\* of the batch size and when L spans several batches.
C25_GetrExact ==
  (ret.op = "getr" /\ ret.err = "Ok") =>
    LET full == InRange(tx.kv, ret.a[1], ret.a[2])
        want == MinLimit(ret.a[3], Len(full))
    IN  /\ Len(ret.val) = want
        /\ ret.val = SubSeq(full, 1, want)

\* a limit of 1001, one more than a batch, on a range of 2500 keys: the first
\* 1001 entries came back, from two batches
C25_Witness ==
  /\ tx.kv = Preload(2500)
  /\ ret.op = "getr"
  /\ ret.a = <<PKey(0), PKey(9999), u32_of(1001)>>
  /\ ret.err = "Ok"
  /\ ret.val = SubSeq(Preload(2500), 1, 1001)
  /\ Len(ScansOf(ret.log)) = 2

\* the keys passed to the backend's del in a log, in order
DelsOf(log) ==
  LET dels == SelectSeq(log, LAMBDA e : e.op = "del")
  IN  [i \in 1..Len(dels) |-> dels[i].a[1]]

\* C26: delr(beg..end, L) deletes exactly the min(L, n) smallest keys of
\* [beg, end) and nothing else: keys outside the range, and keys of the range
\* past the first L, keep their values; every key deleted is deleted once, in
\* ascending order, so that no batch skips or re-visits a key of the range.
C26_DelrExact ==
  [][ (ret.op = "none" /\ ret'.op = "delr" /\ ret'.err = "Ok") =>
        \E full \in {InRange(tx.kv, ret'.a[1], ret'.a[2])} :
        \E want \in {MinLimit(ret'.a[3], Len(full))} :
        \E gone \in {{full[i][1] : i \in 1..want}} :
          /\ tx'.kv = SelectSeq(tx.kv, LAMBDA e : e[1] \notin gone)
          /\ DelsOf(ret'.log) = [i \in 1..want |-> full[i][1]]
    ]_vars

\* a limit of 1001 on a range of 2500 keys: k0000 .. k1000 are gone, k1001 ..
\* k2499 are left as they were
C26_Witness ==
  /\ ret.op = "delr"
  /\ ret.a = <<PKey(0), PKey(9999), u32_of(1001)>>
  /\ ret.err = "Ok"
  /\ tx.kv = SubSeq(Preload(2500), 1002, 2500)
  /\ Len(ScansOf(ret.log)) = 2

\* the end of the range a paged call reads or deletes
EndOf(op, a) == IF op \in {"getr", "delr"} THEN a[2] ELSE getp_end(a[1])

\* the outcomes a paged call can return with
PagedErrs == {"Ok", "TxFinished", "TxReadOnly", "Io"}

\* C27: getr, getp, delr and delp return on every store, range and limit, and
\* every turn of their loop that does not leave it moves the cursor strictly
\* forward: with n keys in the range and limit L, the call issues at most
\* ceil(min(L, n) / 1000) + 1 scans, each starting strictly above the one
\* before, and deletes at most min(L, n) keys.
C27_PagingTerminates ==
  [][ (ret.op = "none" /\ ret'.op \in PagedOps) =>
        \E scans \in {ScansOf(ret'.log)} :
        \E n \in {Len(InRange(tx.kv, ret'.a[1], EndOf(ret'.op, ret'.a)))} :
        \E m \in {MinLimit(LimitOf(ret'.op, ret'.a), n)} :
          /\ ret'.err \in PagedErrs
          /\ Len(scans) <= ((m + 999) \div 1000) + 1
          /\ \A i \in 1..(Len(scans) - 1) :
               KeyLess(scans[i].a[1], scans[i + 1].a[1])
          /\ Len(DelsOf(ret'.log)) <= m
    ]_vars

\* delp of the 2500 keys under "k" with no limit: three batches of deletions
\* and a fourth, empty scan, the most the bound allows
C27_Witness ==
  /\ ret.op = "delp"
  /\ ret.a = << <<107>>, u32_MAX >>
  /\ ret.err = "Ok"
  /\ Len(DelsOf(ret.log)) = 2500
  /\ Len(ScansOf(ret.log)) = 4
  /\ tx.kv = <<>>

\* std::cmp::min(1000, num) for a u32 num
Window(num) == IF u32_geq_nat(num, 1000) THEN u32_of(1000) ELSE num

\* C28: the remaining counter num of getr, getp, delr and delp stays within
\* 0 .. limit: with every scan returning at most what it was asked for, the
\* entries taken before each scan and at the end never exceed the limit, and
\* each scan asks for min(1000, num) with num the limit less the entries
\* taken so far, so num has not wrapped below zero.
C28_CounterInBounds ==
  [][ (ret.op = "none" /\ ret'.op \in PagedOps) =>
        \E lim \in {LimitOf(ret'.op, ret'.a)} :
        \E scans \in {ScansOf(ret'.log)} :
        \E got \in {[i \in 1..Len(scans) |-> Len(BatchOf(tx.kv, scans[i]))]} :
          LET taken[i \in 0..Len(scans)] ==
                IF i = 0 THEN 0 ELSE taken[i - 1] + got[i]
          IN  \A i \in 1..Len(scans) :
                /\ u32_geq_nat(lim, taken[i - 1] + 1)
                /\ scans[i].a[3] = Window(u32_sub(lim, taken[i - 1]))
                /\ u32_leq(scans[i].a[3], u32_of(1000))
                /\ got[i] <= scans[i].a[3].lo
                /\ u32_geq_nat(lim, taken[i])
    ]_vars

\* getp with limit 1001 over 2500 keys: the second scan asks for the one
\* entry that remains, and the counter ends at 0
C28_Witness ==
  /\ ret.op = "getp"
  /\ ret.a = << <<107>>, u32_of(1001) >>
  /\ ret.err = "Ok"
  /\ Len(ScansOf(ret.log)) = 2
  /\ ScansOf(ret.log)[1].a[3] = u32_of(1000)
  /\ ScansOf(ret.log)[2].a[3] = u32_of(1)
  /\ Len(ret.val) = 1001

====
